---- MODULE Spec2Model ----
(***************************************************************************)
(* A model of the tracer layer of the fuzzer: the tracers that ride along  *)
(* the EVM interpreter (OnTxStart, OnEnter, OnOpcode, OnExit and the       *)
(* capture of the per-transaction result), their per-frame pending         *)
(* containers and the revert-aware merge into the parent frame.            *)
(*                                                                         *)
(* Every tracer family has one state variable (a record of the tracer      *)
(* object's fields, of the interpreter state it reads and of history       *)
(* fields used only by the properties) and one specification.  A variable  *)
(* of a family that a specification does not run stays at Idle.            *)
(*   sets : storage-write tracer and token-flow tracer  (SpecSets)         *)
(*   cov  : branch-coverage tracer                      (SpecCov)          *)
(*   df   : dataflow tracer                             (SpecDataflow)     *)
(*   bug  : bug-detector tracer                         (SpecBug)          *)
(*   dist : branch-distance and cmp-distance tracers                       *)
(*   acc  : an accumulator of the fuzzer (coverage map, distance map, bug  *)
(*          map, set) or a predicate of an oracle, driven on its own       *)
(***************************************************************************)
EXTENDS Integers, Sequences, FiniteSets, TLC

VARIABLES sets, cov, df, bug, dist, acc

vars == <<sets, cov, df, bug, dist, acc>>

Idle == [attached |-> "none"]

(***************************************************************************)
(* Bounds of the model.                                                    *)
(***************************************************************************)
\* deepest interpreter depth of a call frame (0 is the top-level frame)
MaxDepth == 2
\* number of OnOpcode hooks delivered in one transaction
MaxOps == 3

(***************************************************************************)
(* Small input domains.                                                    *)
(***************************************************************************)
Addrs == {"c1", "c2"}
ZeroAddress == "0x0"
Pcs == {1, 2}
Slots == {"s1"}
\* A 256-bit word is represented by its bit length (0 for the word 0), which
\* is all that bucket() reads: 3 is below 2^4, 9 is in [2^4, 2^16).
Words == {3, 9}

(***************************************************************************)
(* Maps keyed by strings (Go map[string]*T): functions with a finite       *)
(* domain.                                                                 *)
(***************************************************************************)
EmptyMap == [k \in {} |-> 0]

Has(m, k) == k \in DOMAIN m

Put(m, k, v) == [x \in (DOMAIN m) \cup {k} |-> IF x = k THEN v ELSE m[x]]

(***************************************************************************)
(* storagewrite: StorageWrite.Bucket, StorageWriteSet.                     *)
(***************************************************************************)
slice0 == 4
slice1 == 16
slice2 == 64

bucket(value) ==
    IF value < slice0 + 1 THEN "0-2^4"
    ELSE IF value < slice1 + 1 THEN "2^4-2^16"
    ELSE IF value < slice2 + 1 THEN "2^16-2^64"
    ELSE "2^64-2^256"

\* StorageWrite.Bucket(): position "-" variable "-" bucket(value)
SW_BucketKey(codeAddress, create, pc, storageAddress, slot, value) ==
    <<codeAddress, create, pc, storageAddress, slot, bucket(value)>>

NewStorageWriteSet == EmptyMap

\* StorageWriteSet.Update: keys of the argument that the receiver lacks
SW_Update(ds, storageWriteSet) ==
    [k \in (DOMAIN ds) \cup (DOMAIN storageWriteSet) |->
        IF k \in DOMAIN ds THEN ds[k] ELSE storageWriteSet[k]]

SW_SetWrite(ds, storageAddress, slot, value, codeAddress, create, pc) ==
    LET key == SW_BucketKey(codeAddress, create, pc, storageAddress, slot, value)
    IN  IF Has(ds, key) THEN ds ELSE Put(ds, key, value)

SW_RevertAll_Keep(ds) == ds

SW_RevertAll(ds) == NewStorageWriteSet

(***************************************************************************)
(* tokenflow: Tokenflow.String, TokenflowSet.                              *)
(***************************************************************************)
\* Tokenflow.String(): the position only
TF_Key(codeAddress, create, pc) == <<codeAddress, create, pc>>

NewTokenflowSet == EmptyMap

TF_Update(ds, other) ==
    [k \in (DOMAIN ds) \cup (DOMAIN other) |->
        IF k \in DOMAIN ds THEN ds[k] ELSE other[k]]

TF_SetTokenFlow(ds, codeAddress, create, pc, amount, from, to, token) ==
    LET key == TF_Key(codeAddress, create, pc)
        flow == [From |-> from, To |-> to, Amount |-> amount, Token |-> token]
    IN  IF Has(ds, key) THEN ds ELSE Put(ds, key, flow)

TF_RevertAll(ds) == NewTokenflowSet

(***************************************************************************)
(* The hook stream of one attached set tracer.  sets.depth is the          *)
(* interpreter's depth of the innermost open frame (-1: none), which the   *)
(* interpreter passes to OnEnter and OnExit; sets.tracer holds the tracer  *)
(* object's fields.  fromChildren (per frame) and last are history only.   *)
(***************************************************************************)
SetsTracerKinds == {"storagewrite", "tokenflow"}

NewSetTracer(kind) ==
    [set |-> IF kind = "storagewrite" THEN NewStorageWriteSet ELSE NewTokenflowSet,
     callFrameStates |-> << >>,
     callDepth |-> 0]

NoHook == [hook |-> "none"]

SetsInit ==
    /\ cov = Idle /\ df = Idle /\ bug = Idle /\ dist = Idle /\ acc = Idle
    /\ \E kind \in SetsTracerKinds :
        sets = [attached |-> kind, phase |-> "idle", depth |-> -1, ops |-> 0,
                tracer |-> NewSetTracer(kind), last |-> NoHook,
                result |-> EmptyMap]

RevertAllOf(kind, ds) ==
    IF kind = "storagewrite" THEN SW_RevertAll(ds) ELSE TF_RevertAll(ds)

UpdateOf(kind, ds, other) ==
    IF kind = "storagewrite" THEN SW_Update(ds, other) ELSE TF_Update(ds, other)

\* OnTxStart: callDepth = 0, a new set, an empty frame stack.  sets.result is
\* the AdditionalResults entry of the transaction being executed, and every
\* transaction has a result object of its own.
Sets_OnTxStart ==
    /\ sets.attached \in SetsTracerKinds
    /\ UNCHANGED <<cov, df, bug, dist, acc>>
    /\ sets.phase = "idle"
    /\ sets' = [sets EXCEPT !.phase = "tx", !.depth = -1, !.ops = 0,
                            !.result = EmptyMap,
                            !.tracer = NewSetTracer(sets.attached),
                            !.last = [hook |-> "txstart"]]

\* OnEnter(depth, typ, from, to, ...)
Sets_OnEnter(typ, to) ==
    /\ sets.attached \in SetsTracerKinds
    /\ UNCHANGED <<cov, df, bug, dist, acc>>
    /\ sets.phase = "tx"
    /\ sets.depth < MaxDepth
    /\ LET depth == sets.depth + 1
           isTopLevelFrame == depth = 0
           t == sets.tracer
           frame == [create |-> typ \in {"CREATE", "CREATE2"},
                     pending |-> EmptyMap,
                     address |-> to,
                     fromChildren |-> {}]
       IN  sets' = [sets EXCEPT
                      !.depth = depth,
                      !.tracer = [t EXCEPT
                          !.callDepth = IF isTopLevelFrame THEN @ ELSE @ + 1,
                          !.callFrameStates = Append(@, frame)],
                      !.last = [hook |-> "enter", depth |-> depth]]

\* StorageWriteTracer.OnOpcode with op = SSTORE
SW_OnOpcodeSSTORE(pc, slot, value, storageAddress) ==
    /\ sets.attached = "storagewrite"
    /\ UNCHANGED <<cov, df, bug, dist, acc>>
    /\ sets.phase = "tx"
    /\ sets.depth >= 0
    /\ sets.ops < MaxOps
    /\ LET t == sets.tracer
           i == t.callDepth + 1
           callFrameState == t.callFrameStates[i]
           codeAddress == callFrameState.address
           after == SW_SetWrite(callFrameState.pending, storageAddress, slot, value,
                                codeAddress, callFrameState.create, pc)
       IN  sets' = [sets EXCEPT
                      !.ops = @ + 1,
                      !.tracer.callFrameStates[i].pending = after,
                      !.last = [hook |-> "op", depth |-> sets.depth,
                                pendingBefore |-> callFrameState.pending]]

\* The calldata of a CALL as TokenflowTracer.OnOpcode reads it
CallArgs ==
    {[len |-> 0, selector |-> "none"],
     [len |-> 68, selector |-> "a9059cbb"],
     [len |-> 100, selector |-> "23b872dd"],
     [len |-> 68, selector |-> "23b872dd"]}

\* TokenflowTracer.OnOpcode with op = CALL; argTo, argFrom and argAmount are
\* the words of the calldata the two ERC-20 patterns parse
TF_OnOpcodeCALL(pc, toAddr, value, args, argFrom, argTo, argAmount, storageAddress) ==
    /\ sets.attached = "tokenflow"
    /\ UNCHANGED <<cov, df, bug, dist, acc>>
    /\ sets.phase = "tx"
    /\ sets.depth >= 0
    /\ sets.ops < MaxOps
    /\ LET t == sets.tracer
           i == t.callDepth + 1
           callFrameState == t.callFrameStates[i]
           codeAddress == callFrameState.address
           create == callFrameState.create
           s0 == callFrameState.pending
           s1 == IF value > 0
                 THEN TF_SetTokenFlow(s0, codeAddress, create, pc, value,
                                      storageAddress, toAddr, ZeroAddress)
                 ELSE s0
           s2 == IF args.len >= 4
                 THEN IF args.selector = "a9059cbb" /\ args.len = 68
                      THEN TF_SetTokenFlow(s1, codeAddress, create, pc, argAmount,
                                           storageAddress, argTo, toAddr)
                      ELSE IF args.selector = "23b872dd" /\ args.len = 100
                      THEN TF_SetTokenFlow(s1, codeAddress, create, pc, argAmount,
                                           argFrom, argTo, toAddr)
                      ELSE s1
                 ELSE s1
       IN  sets' = [sets EXCEPT
                      !.ops = @ + 1,
                      !.tracer.callFrameStates[i].pending = s2,
                      !.last = [hook |-> "op", depth |-> sets.depth,
                                pendingBefore |-> s0,
                                call |-> [pc |-> pc, toAddr |-> toAddr, value |-> value,
                                          args |-> args, argFrom |-> argFrom,
                                          argTo |-> argTo, argAmount |-> argAmount,
                                          storageAddress |-> storageAddress]]]

\* OnExit(depth, output, gasUsed, err, reverted) of either set tracer
Sets_OnExit(reverted) ==
    /\ sets.attached \in SetsTracerKinds
    /\ UNCHANGED <<cov, df, bug, dist, acc>>
    /\ sets.phase = "tx"
    /\ sets.depth >= 0
    /\ LET depth == sets.depth
           t == sets.tracer
           i == t.callDepth + 1
           current == t.callFrameStates[i]
           currentSet == IF reverted THEN RevertAllOf(sets.attached, current.pending)
                         ELSE current.pending
           isTopLevelFrame == depth = 0
           \* the frame keeps the set RevertAll cleared (the set is shared by pointer)
           frames1 == [t.callFrameStates EXCEPT ![i].pending = currentSet]
           hist == [hook |-> "exit", depth |-> depth, reverted |-> reverted,
                    exited |-> current,
                    parentBefore |-> IF isTopLevelFrame THEN t.set
                                     ELSE t.callFrameStates[i - 1].pending]
       IN  IF isTopLevelFrame
           THEN sets' = [sets EXCEPT
                           !.depth = -1,
                           !.phase = "ended",
                           !.tracer = [t EXCEPT
                               !.set = UpdateOf(sets.attached, @, currentSet),
                               !.callFrameStates = frames1],
                           !.last = hist]
           ELSE sets' = [sets EXCEPT
                           !.depth = depth - 1,
                           !.tracer = [t EXCEPT
                               !.callFrameStates =
                                   SubSeq([frames1 EXCEPT
                                             ![i - 1].pending =
                                                 UpdateOf(sets.attached, @, currentSet),
                                             ![i - 1].fromChildren =
                                                 @ \cup DOMAIN currentSet],
                                          1, t.callDepth),
                               !.callDepth = @ - 1],
                           !.last = hist]

\* CaptureTxEndSetAdditionalResults: the tx-scoped set becomes the result
Sets_CaptureTxEnd ==
    /\ sets.attached \in SetsTracerKinds
    /\ UNCHANGED <<cov, df, bug, dist, acc>>
    /\ sets.phase = "ended"
    /\ sets' = [sets EXCEPT !.phase = "idle", !.result = sets.tracer.set,
                            !.last = [hook |-> "txend"]]

SetsNext ==
    \/ Sets_OnTxStart
    \/ \E e \in {<<"CALL", "c1">>, <<"CREATE", "c2">>} : Sets_OnEnter(e[1], e[2])
    \/ \E pc \in Pcs, slot \in Slots, value \in Words :
          SW_OnOpcodeSSTORE(pc, slot, value, "c1")
    \/ \E pc \in Pcs, value \in {0, 3}, args \in CallArgs :
          TF_OnOpcodeCALL(pc, "c2", value, args, "c1", "c2", 9, "c1")
    \/ \E reverted \in BOOLEAN : Sets_OnExit(reverted)
    \/ Sets_CaptureTxEnd

SpecSets == SetsInit /\ [][SetsNext]_vars

(***************************************************************************)
(* branchcoverage: BranchMap, CoverageMapBranchData, CoverageMaps.         *)
(* A CoverageMaps value is a map from <<code hash, code address>> to the   *)
(* executedFlags of the entry's successfulCoverage (NilFlags for nil)      *)
(* and the key of the cached entry.                                        *)
(***************************************************************************)
Nil == "nil"
BLANK_ADDRESS == "0x0"

\* The codes of the chain: the runtime code of each contract and one init
\* code, each with its lookup hash and the pcs of its JUMPI instructions in
\* code order.
CodeOf == [a \in Addrs |-> IF a = "c1" THEN "h1" ELSE "h2"]

InitCode == "h0"

JumpiPcs == [h \in {"h0", "h1", "h2"} |-> IF h = "h1" THEN <<1, 2>> ELSE <<1>>]

\* getContractCoverageMapHash: a code is named by the hash of its bytes
getContractCoverageMapHash(bytecode, init) == bytecode

\* GetBranchMapFromBytecode: pc -> id of the false branch, ids 0, 2, 4, ...
BranchIds(h) == [pc \in {JumpiPcs[h][i] : i \in DOMAIN JumpiPcs[h]} |->
                    2 * ((CHOOSE i \in DOMAIN JumpiPcs[h] : JumpiPcs[h][i] = pc) - 1)]

\* the codes NewCoverageTracer built a branch map for
branchMaps == {"h1", "h2"}

BranchMap_Size(h) == Cardinality(DOMAIN BranchIds(h)) * 2

GetBranchId(h, pc, cond) == IF cond THEN BranchIds(h)[pc] + 1 ELSE BranchIds(h)[pc]

\* a nil executedFlags slice (a slice SetAt makes is never empty) and the
\* cache of a CoverageMaps that has cached no entry
NilFlags == << >>

NoKey == << >>

NewCoverageMaps == [maps |-> EmptyMap, cached |-> NoKey]

\* CoverageMapBranchData.Reset
BranchData_Reset(flags) == NilFlags

Min(a, b) == IF a < b THEN a ELSE b

\* CoverageMapBranchData.update: <<flags of the receiver, changed>>
BranchData_update(flags, other) ==
    IF other = NilFlags THEN <<flags, FALSE>>
    ELSE IF flags = NilFlags THEN <<other, TRUE>>
    ELSE LET n == Min(Len(flags), Len(other))
             merged == [i \in 1..Len(flags) |->
                          IF i <= n /\ flags[i] = 0 /\ other[i] # 0 THEN 1 ELSE flags[i]]
         IN  <<merged, merged # flags>>

\* CoverageMapBranchData.setCoveredAt: <<flags, changed>>
BranchData_setCoveredAt(flags, branchSize, id) ==
    LET f == IF flags = NilFlags THEN [i \in 1..branchSize |-> 0] ELSE flags
    IN  IF id < Len(f)
        THEN IF f[id + 1] = 0 THEN <<[f EXCEPT ![id + 1] = 1], TRUE>> ELSE <<f, FALSE>>
        ELSE <<f, FALSE>>

\* CoverageMaps.Update: the receiver after the merge.  An entry the receiver
\* lacks becomes the entry of the argument, whatever its flags are.
Cov_Update(cm, coverageMaps) ==
    [cm EXCEPT !.maps =
        [k \in (DOMAIN cm.maps) \cup (DOMAIN coverageMaps.maps) |->
            IF k \in DOMAIN cm.maps
            THEN IF k \in DOMAIN coverageMaps.maps
                 THEN BranchData_update(cm.maps[k], coverageMaps.maps[k])[1]
                 ELSE cm.maps[k]
            ELSE coverageMaps.maps[k]]]

\* the boolean CoverageMaps.Update returns: every merged entry assigns or ors
\* into successCoverageChanged; an entry the receiver lacks assigns
\* successfulCoverage != nil, which is true for every entry there is
Cov_UpdateAddsEntry(cm, coverageMaps) ==
    \E k \in DOMAIN coverageMaps.maps : k \notin DOMAIN cm.maps

\* CoverageMaps.SetAt
Cov_SetAt(cm, codeAddress, codeLookupHash, branchSize, id) ==
    IF branchSize = 0 THEN cm
    ELSE LET key == <<codeLookupHash, codeAddress>>
             flags == IF key \in DOMAIN cm.maps THEN cm.maps[key] ELSE NilFlags
         IN  [maps |-> Put(cm.maps, key,
                           BranchData_setCoveredAt(flags, branchSize, id)[1]),
              cached |-> key]

\* CoverageMaps.RevertAll: Reset on the successfulCoverage of every entry
Cov_RevertAll(cm) ==
    [cm EXCEPT !.maps = [k \in DOMAIN cm.maps |-> BranchData_Reset(cm.maps[k])]]

(***************************************************************************)
(* The hook stream of the branch-coverage tracer.  cov.scopes is the       *)
(* interpreter's stack of open frames (address and code of each), which    *)
(* OnOpcode reads through its scope argument.                              *)
(***************************************************************************)
InitialContractsSets == {Nil, "c1only"}

\* CoverageTracer.addressForCoverage
addressForCoverage(initialContractsSet, address) ==
    IF initialContractsSet = Nil THEN address
    ELSE IF address \in {"c1"} THEN address
    ELSE BLANK_ADDRESS

NewCoverageTracer(ics) ==
    [coverageMaps |-> NewCoverageMaps,
     callFrameStates |-> << >>,
     callDepth |-> 0,
     initialContractsSet |-> ics]

CovInit ==
    /\ sets = Idle /\ df = Idle /\ bug = Idle /\ dist = Idle /\ acc = Idle
    /\ \E ics \in InitialContractsSets :
        cov = [attached |-> "branchcoverage", phase |-> "idle", ops |-> 0,
               scopes |-> << >>, tracer |-> NewCoverageTracer(ics),
               last |-> NoHook, result |-> NewCoverageMaps]

Cov_OnTxStart ==
    /\ cov.attached = "branchcoverage"
    /\ UNCHANGED <<sets, df, bug, dist, acc>>
    /\ cov.phase = "idle"
    /\ cov' = [cov EXCEPT !.phase = "tx", !.ops = 0, !.scopes = << >>,
                          !.result = NewCoverageMaps,
                          !.tracer = NewCoverageTracer(cov.tracer.initialContractsSet),
                          !.last = [hook |-> "txstart", before |-> cov.tracer]]

Cov_OnEnter(typ, to) ==
    /\ cov.attached = "branchcoverage"
    /\ UNCHANGED <<sets, df, bug, dist, acc>>
    /\ cov.phase = "tx"
    /\ Len(cov.scopes) <= MaxDepth
    /\ LET depth == Len(cov.scopes)
           isTopLevelFrame == depth = 0
           create == typ \in {"CREATE", "CREATE2"}
           t == cov.tracer
           frame == [initialized |-> FALSE,
                     create |-> create,
                     pendingCoverageMap |-> NewCoverageMaps,
                     lookupHash |-> Nil,
                     address |-> Nil,
                     fromChildren |-> {}]
       IN  cov' = [cov EXCEPT
                     !.scopes = Append(@, [address |-> to,
                                           code |-> IF create THEN InitCode
                                                    ELSE CodeOf[to]]),
                     !.tracer = [t EXCEPT
                         !.callDepth = IF isTopLevelFrame THEN @ ELSE @ + 1,
                         !.callFrameStates = Append(@, frame)],
                     !.last = [hook |-> "enter", depth |-> depth]]

\* OnOpcode(pc, op, ..., scope, ...); cond is whether Stack.Back(1) is not zero
Cov_OnOpcode(pc, op, cond) ==
    /\ cov.attached = "branchcoverage"
    /\ UNCHANGED <<sets, df, bug, dist, acc>>
    /\ cov.phase = "tx"
    /\ Len(cov.scopes) > 0
    /\ cov.ops < MaxOps
    /\ LET scope == cov.scopes[Len(cov.scopes)]
           t == cov.tracer
           i == t.callDepth + 1
           f0 == t.callFrameStates[i]
           f1 == IF ~f0.initialized
                 THEN [f0 EXCEPT !.initialized = TRUE, !.address = scope.address]
                 ELSE f0
           f2 == IF f1.lookupHash = Nil
                 THEN [f1 EXCEPT !.lookupHash =
                                    getContractCoverageMapHash(scope.code, f1.create)]
                 ELSE f1
           exists == f2.lookupHash \in branchMaps
           f3 == IF exists
                 THEN [f2 EXCEPT !.pendingCoverageMap =
                          Cov_SetAt(@, addressForCoverage(t.initialContractsSet, f2.address),
                                    f2.lookupHash, BranchMap_Size(f2.lookupHash),
                                    GetBranchId(f2.lookupHash, pc, cond))]
                 ELSE f2
       IN  /\ op = "JUMPI" => pc \in DOMAIN BranchIds(scope.code)
           /\ cov' = [cov EXCEPT
                        !.ops = @ + 1,
                        !.tracer.callFrameStates[i] = IF op = "JUMPI" THEN f3 ELSE f1,
                        !.last = [hook |-> "op", depth |-> Len(cov.scopes) - 1,
                                  pendingBefore |-> f0.pendingCoverageMap]]

Cov_OnExit(reverted) ==
    /\ cov.attached = "branchcoverage"
    /\ UNCHANGED <<sets, df, bug, dist, acc>>
    /\ cov.phase = "tx"
    /\ Len(cov.scopes) > 0
    /\ LET depth == Len(cov.scopes) - 1
           t == cov.tracer
           i == t.callDepth + 1
           currentCallFrameState == t.callFrameStates[i]
           currentCoverageMap ==
               IF reverted THEN Cov_RevertAll(currentCallFrameState.pendingCoverageMap)
               ELSE currentCallFrameState.pendingCoverageMap
           isTopLevelFrame == depth = 0
           frames1 == [t.callFrameStates EXCEPT ![i].pendingCoverageMap = currentCoverageMap]
           parent == IF isTopLevelFrame THEN t.coverageMaps
                     ELSE t.callFrameStates[i - 1].pendingCoverageMap
           hist == [hook |-> "exit", depth |-> depth, reverted |-> reverted,
                    exited |-> currentCallFrameState,
                    parentBefore |-> parent,
                    changed |-> Cov_UpdateAddsEntry(parent, currentCoverageMap)]
       IN  IF isTopLevelFrame
           THEN cov' = [cov EXCEPT
                          !.scopes = << >>,
                          !.phase = "ended",
                          !.tracer = [t EXCEPT
                              !.coverageMaps = Cov_Update(@, currentCoverageMap),
                              !.callFrameStates = frames1],
                          !.last = hist]
           ELSE cov' = [cov EXCEPT
                          !.scopes = SubSeq(@, 1, Len(@) - 1),
                          !.tracer = [t EXCEPT
                              !.callFrameStates =
                                  SubSeq([frames1 EXCEPT
                                            ![i - 1].pendingCoverageMap =
                                                Cov_Update(@, currentCoverageMap),
                                            ![i - 1].fromChildren =
                                                @ \cup DOMAIN currentCoverageMap.maps],
                                         1, t.callDepth),
                              !.callDepth = @ - 1],
                          !.last = hist]

Cov_CaptureTxEnd ==
    /\ cov.attached = "branchcoverage"
    /\ UNCHANGED <<sets, df, bug, dist, acc>>
    /\ cov.phase = "ended"
    /\ cov' = [cov EXCEPT !.phase = "idle", !.result = cov.tracer.coverageMaps,
                          !.last = [hook |-> "txend"]]

CovNext ==
    \/ Cov_OnTxStart
    \/ \E e \in {<<"CALL", "c1">>, <<"CALL", "c2">>, <<"CREATE", "c2">>} :
          Cov_OnEnter(e[1], e[2])
    \/ \E pc \in Pcs, op \in {"JUMPI", "JUMPDEST"}, cond \in BOOLEAN :
          Cov_OnOpcode(pc, op, cond)
    \/ \E reverted \in BOOLEAN : Cov_OnExit(reverted)
    \/ Cov_CaptureTxEnd

SpecCov == CovInit /\ [][CovNext]_vars

(***************************************************************************)
(* C2.  Branch-coverage tracer: after the exit of a reverted frame F the   *)
(* pending map of F's parent (the transaction map when F is the top-level  *)
(* frame) is the same as if F had never executed: it is what it was before *)
(* the exit, with no flag set and no new (code hash, address) entry.       *)
(***************************************************************************)
CovParentNow ==
    IF cov.last.depth = 0 THEN cov.tracer.coverageMaps
    ELSE cov.tracer.callFrameStates[cov.tracer.callDepth + 1].pendingCoverageMap

C2_RevertedFrameLeavesParentUnchanged ==
    (cov.last.hook = "exit" /\ cov.last.reverted)
        => CovParentNow.maps = cov.last.parentBefore.maps

(***************************************************************************)
(* dataflow: ProgramPosition, StorageSlot, Dataflow, DataflowSet.          *)
(* A DataflowSet value has the keys of its set (a key is the triple write  *)
(* position, variable, read position, and the entry is made of the same    *)
(* three parts) and its writeMaps: the write positions recorded for each   *)
(* variable, none for a variable writeMaps has no map for.                 *)
(***************************************************************************)
DF_Position(address, create, pc) == <<address, create, pc>>

DF_StorageSlot(address, slot) == <<address, slot>>

\* Dataflow.String(): write "-" variable "-" read
DF_Key(write, variable, read) == <<write, variable, read>>

DF_Slots == {"s1", "s2"}

DF_Variables == {DF_StorageSlot(a, sl) : a \in {"c1"}, sl \in DF_Slots}

NewDataflowSet == [set |-> {}, writeMaps |-> [v \in DF_Variables |-> {}]]

\* DataflowSet.Update
DF_Update(ds, dataflowSet) == [ds EXCEPT !.set = @ \cup dataflowSet.set]

\* DataflowSet.SetWrite
DF_SetWrite(ds, storageAddress, slot, codeAddress, create, pc) ==
    LET variable == DF_StorageSlot(storageAddress, slot)
        write == DF_Position(codeAddress, create, pc)
    IN  [ds EXCEPT !.writeMaps[variable] = @ \cup {write}]

\* DataflowSet.SetRead
DF_SetRead(ds, storageAddress, slot, codeAddress, create, pc) ==
    LET variable == DF_StorageSlot(storageAddress, slot)
        read == DF_Position(codeAddress, create, pc)
    IN  [ds EXCEPT !.set = @ \cup {DF_Key(write, variable, read) :
                                      write \in ds.writeMaps[variable]}]

\* DataflowSet.RevertAll: Reset
DF_RevertAll(ds) == NewDataflowSet

(***************************************************************************)
(* The hook stream of the dataflow tracer.  df.depth is the interpreter's  *)
(* depth of the innermost open frame; stored, loaded, flowed and last are  *)
(* history: the variables the transaction has stored to and loaded from    *)
(* so far, and the variables it loaded after it had stored to them.        *)
(***************************************************************************)
NewDataflowTracer ==
    [dataflowSet |-> NewDataflowSet, callFrameStates |-> << >>, callDepth |-> 0]

DfInit ==
    /\ sets = Idle /\ cov = Idle /\ bug = Idle /\ dist = Idle /\ acc = Idle
    /\ df = [attached |-> "dataflow", phase |-> "idle", depth |-> -1, ops |-> 0,
             tracer |-> NewDataflowTracer, last |-> NoHook,
             stored |-> {}, flowed |-> {}, result |-> NewDataflowSet]

Df_OnTxStart ==
    /\ df.attached = "dataflow"
    /\ UNCHANGED <<sets, cov, bug, dist, acc>>
    /\ df.phase = "idle"
    /\ df' = [df EXCEPT !.phase = "tx", !.depth = -1, !.ops = 0,
                        !.tracer = NewDataflowTracer,
                        !.stored = {}, !.flowed = {},
                        !.result = NewDataflowSet,
                        !.last = [hook |-> "txstart", before |-> df.tracer]]

Df_OnEnter(typ, to) ==
    /\ df.attached = "dataflow"
    /\ UNCHANGED <<sets, cov, bug, dist, acc>>
    /\ df.phase = "tx"
    /\ df.depth < MaxDepth
    /\ LET depth == df.depth + 1
           isTopLevelFrame == depth = 0
           t == df.tracer
           frame == [initialized |-> FALSE,
                     create |-> typ \in {"CREATE", "CREATE2"},
                     address |-> to]
       IN  df' = [df EXCEPT
                    !.depth = depth,
                    !.tracer = [t EXCEPT
                        !.callDepth = IF isTopLevelFrame THEN @ ELSE @ + 1,
                        !.callFrameStates = Append(@, frame)],
                    !.last = [hook |-> "enter", depth |-> depth]]

\* OnOpcode(pc, op, ..., scope, ...): slot is Stack.Back(0) and storageAddress
\* is scope.Contract.Address()
Df_OnOpcode(pc, op, slot, storageAddress) ==
    /\ df.attached = "dataflow"
    /\ UNCHANGED <<sets, cov, bug, dist, acc>>
    /\ df.phase = "tx"
    /\ df.depth >= 0
    /\ df.ops < MaxOps
    /\ LET t == df.tracer
           i == t.callDepth + 1
           callFrameState == [t.callFrameStates[i] EXCEPT !.initialized = TRUE]
           codeAddress == callFrameState.address
           variable == DF_StorageSlot(storageAddress, slot)
           ds == IF op = "SLOAD"
                 THEN DF_SetRead(t.dataflowSet, storageAddress, slot, codeAddress,
                                 callFrameState.create, pc)
                 ELSE IF op = "SSTORE"
                 THEN DF_SetWrite(t.dataflowSet, storageAddress, slot, codeAddress,
                                  callFrameState.create, pc)
                 ELSE t.dataflowSet
       IN  df' = [df EXCEPT
                    !.ops = @ + 1,
                    !.tracer.callFrameStates[i] = callFrameState,
                    !.tracer.dataflowSet = ds,
                    !.stored = IF op = "SSTORE" THEN @ \cup {variable} ELSE @,
                    !.flowed = IF op = "SLOAD" /\ variable \in df.stored
                               THEN @ \cup {variable} ELSE @,
                    !.last = [hook |-> "op", depth |-> df.depth, op |-> op]]

Df_OnExit(reverted) ==
    /\ df.attached = "dataflow"
    /\ UNCHANGED <<sets, cov, bug, dist, acc>>
    /\ df.phase = "tx"
    /\ df.depth >= 0
    /\ LET depth == df.depth
           t == df.tracer
           currentDataflowSet == IF reverted THEN DF_RevertAll(t.dataflowSet)
                                 ELSE t.dataflowSet
           isTopLevelFrame == depth = 0
           hist == [hook |-> "exit", depth |-> depth, reverted |-> reverted,
                    setBefore |-> t.dataflowSet]
       IN  IF isTopLevelFrame
           THEN df' = [df EXCEPT
                         !.depth = -1,
                         !.phase = "ended",
                         !.tracer.dataflowSet = currentDataflowSet,
                         !.last = hist]
           ELSE df' = [df EXCEPT
                         !.depth = depth - 1,
                         !.tracer = [t EXCEPT
                             !.dataflowSet = currentDataflowSet,
                             !.callFrameStates = SubSeq(@, 1, t.callDepth),
                             !.callDepth = @ - 1],
                         !.last = hist]

Df_CaptureTxEnd ==
    /\ df.attached = "dataflow"
    /\ UNCHANGED <<sets, cov, bug, dist, acc>>
    /\ df.phase = "ended"
    /\ df' = [df EXCEPT !.phase = "idle", !.result = df.tracer.dataflowSet,
                        !.last = [hook |-> "txend", reverted |-> df.last.reverted]]

DfNext ==
    \/ Df_OnTxStart
    \/ \E e \in {<<"CALL", "c1">>, <<"CREATE", "c2">>} : Df_OnEnter(e[1], e[2])
    \/ \E pc \in Pcs, op \in {"SLOAD", "SSTORE", "JUMPDEST"}, slot \in DF_Slots :
          Df_OnOpcode(pc, op, slot, "c1")
    \/ \E reverted \in BOOLEAN : Df_OnExit(reverted)
    \/ Df_CaptureTxEnd

SpecDataflow == DfInit /\ [][DfNext]_vars

(***************************************************************************)
(* C5.  Dataflow tracer: the exit of a reverted sub-frame (depth > 0)      *)
(* leaves the transaction-global dataflow set as it was before the exit.   *)
(***************************************************************************)
C5_SubFrameRevertKeepsSet ==
    (df.last.hook = "exit" /\ df.last.reverted /\ df.last.depth > 0)
        => df.tracer.dataflowSet = df.last.setBefore

(***************************************************************************)
(* C6.  Dataflow tracer: in a transaction whose top-level frame does not   *)
(* revert, for every SSTORE to a variable that is followed later in the    *)
(* transaction by an SLOAD of the same variable, the set captured at the   *)
(* end of the transaction has a pair whose variable is that one.           *)
(***************************************************************************)
C6_StoreThenLoadIsAPair ==
    (df.last.hook = "txend" /\ ~df.last.reverted)
        => \A v \in df.flowed : \E k \in df.result.set : k[2] = v

(***************************************************************************)
(* bugdetector: TaintAnalyzer.  taintStacks is a map from stack index to   *)
(* the ids of the taints on that index.  The id of a taint made from an    *)
(* opcode and a pc is the pair <<pc, opcode name>>; TaintOpcode.id() drops *)
(* the pc when it is 0, which is the id AddTaintSourceByOpcode gives the   *)
(* opcode, and a taint added by string has its string and pc 0.            *)
(* taintMemory is a map from the id of a taint to the TaintMemory stored   *)
(* under it: opcode, pc and the region [start, end).                       *)
(***************************************************************************)
TaintId(opcode, pc) == <<pc, opcode>>

OVERFLOW_ID == "OVERFLOW"

BLOCK_DEPENDENCY_ID == "BLOCK_DEPENDENCY"

\* the TaintOpcode stored under an id of taintStacks: AddTaintSourceByString
\* stores opcode 0x0 (STOP) and pc 0 under its string
TaintOpcodeOf(id) ==
    IF id[2] \in {OVERFLOW_ID, BLOCK_DEPENDENCY_ID}
    THEN [opcode |-> "STOP", pc |-> 0]
    ELSE [opcode |-> id[2], pc |-> id[1]]

NewTaintAnalyzer == [taintStacks |-> EmptyMap, taintMemory |-> EmptyMap]

Remove(m, k) == [x \in (DOMAIN m) \ {k} |-> m[x]]

Get(m, k) == IF k \in DOMAIN m THEN m[k] ELSE {}

\* AddTaintSource, AddTaintSourceByOpcode (pc 0), AddTaintSourceByString (pc 0)
AddTaintSource(ta, opcode, pc) ==
    [ta EXCEPT !.taintStacks = Put(@, 0, Get(@, 0) \cup {TaintId(opcode, pc)})]

AddTaintSourceByOpcode(ta, opcode) == AddTaintSource(ta, opcode, 0)

AddTaintSourceByString(ta, id) == AddTaintSource(ta, id, 0)

shiftDown(ts) == [i \in {j + 1 : j \in DOMAIN ts} |-> ts[i - 1]]

shiftUp(ts) ==
    IF DOMAIN ts = {} THEN ts
    ELSE [i \in {j - 1 : j \in (DOMAIN ts) \ {0}} |-> ts[i + 1]]

RECURSIVE shiftUpN(_, _)
shiftUpN(ts, n) == IF n = 0 THEN ts ELSE shiftUpN(shiftUp(ts), n - 1)

copyTaintStack(ts, src, dest) ==
    IF src \notin DOMAIN ts THEN Remove(ts, dest) ELSE Put(ts, dest, ts[src])

mergeTaintStacks_Replace(ts, dest, src) ==
    IF src \notin DOMAIN ts THEN ts ELSE Remove(Put(ts, dest, ts[src]), src)

mergeTaintStacks(ts, dest, src) ==
    IF src \notin DOMAIN ts THEN ts
    ELSE Remove(Put(ts, dest, Get(ts, dest) \cup ts[src]), src)

\* the SWAPn case: exchange the entries of index 0 and n, drop empty ones
swapTaintStacks(ts, n) ==
    LET a == Get(ts, 0)
        b == Get(ts, n)
        s1 == IF b = {} THEN Remove(ts, 0) ELSE Put(ts, 0, b)
    IN  IF a = {} THEN Remove(s1, n) ELSE Put(s1, n, a)

\* IsTaintedByString with the id of a taint
IsTaintedById(ta, id, stackIndex) ==
    /\ stackIndex \in DOMAIN ta.taintStacks
    /\ id \in ta.taintStacks[stackIndex]

IsTaintedByString(ta, id, stackIndex) == IsTaintedById(ta, TaintId(id, 0), stackIndex)

IsTaintedByOpcode(ta, opcode, stackIndex) == IsTaintedByString(ta, opcode, stackIndex)

\* PUSH1..PUSH32 and PUSH0, and the opcodes that push without popping
PushOps ==
    {"PUSH", "PUSH0", "ADDRESS", "ORIGIN", "CALLER", "CALLVALUE", "CALLDATASIZE", "CODESIZE",
     "GASPRICE", "COINBASE", "TIMESTAMP", "NUMBER", "DIFFICULTY", "GASLIMIT",
     "BLOCKHASH", "MSIZE", "PC", "GAS", "RETURNDATASIZE", "CHAINID",
     "SELFBALANCE", "BASEFEE"}

KeepOps ==
    {"SLOAD", "ISZERO", "NOT", "BYTE", "BALANCE", "EXTCODESIZE", "EXTCODEHASH",
     "CALLDATALOAD"}

BinaryOps ==
    {"ADD", "SUB", "MUL", "DIV", "SDIV", "MOD", "SMOD", "EXP", "SIGNEXTEND",
     "LT", "GT", "SLT", "SGT", "EQ", "AND", "OR", "XOR", "SHL", "SHR", "SAR",
     "KECCAK256"}

DupN == ("DUP1" :> 1) @@ ("DUP2" :> 2) @@ ("DUP3" :> 3) @@ ("DUP4" :> 4)

SwapN == ("SWAP1" :> 1) @@ ("SWAP2" :> 2) @@ ("SWAP3" :> 3) @@ ("SWAP4" :> 4)

LogN == ("LOG0" :> 0) @@ ("LOG1" :> 1) @@ ("LOG2" :> 2) @@ ("LOG3" :> 3) @@ ("LOG4" :> 4)

\* memoryToStack: the taints of the regions that overlap [start, end) are
\* added to index 0 by AddTaintSource(opcode, pc)
memoryToStack(ta, start, end) ==
    LET hit == {id \in DOMAIN ta.taintMemory :
                   ~(end <= ta.taintMemory[id].start) /\ ~(start >= ta.taintMemory[id].end)}
    IN  IF hit = {} THEN ta
        ELSE [ta EXCEPT !.taintStacks =
                 Put(@, 0, Get(@, 0) \cup
                           {TaintId(ta.taintMemory[id].opcode, ta.taintMemory[id].pc) :
                               id \in hit})]

\* stackToMemory: every taint of the index is stored under its id with the region
stackToMemory(ta, stackIndex, start, end) ==
    IF stackIndex \notin DOMAIN ta.taintStacks THEN ta
    ELSE [ta EXCEPT !.taintMemory =
             [id \in (DOMAIN @) \cup ta.taintStacks[stackIndex] |->
                 IF id \in ta.taintStacks[stackIndex]
                 THEN [opcode |-> TaintOpcodeOf(id).opcode, pc |-> TaintOpcodeOf(id).pc,
                       start |-> start, end |-> end]
                 ELSE @[id]]]

\* TaintAnalyzer.PropagateTaint: offset is Stack.Back(0), read by MLOAD,
\* MSTORE and MSTORE8
PropagateTaint(ta, op, offset) ==
    LET ts == ta.taintStacks
        out ==
          IF DOMAIN ts = {} THEN ts
          ELSE IF op \in PushOps THEN shiftDown(ts)
          ELSE IF op = "MLOAD" THEN memoryToStack(ta, offset, offset + 32).taintStacks
          ELSE IF op \in {"MSTORE", "MSTORE8"} THEN shiftUpN(ts, 2)
          ELSE IF op \in {"CODECOPY", "CALLDATACOPY", "RETURNDATACOPY"} THEN shiftUpN(ts, 3)
          ELSE IF op = "EXTCODECOPY" THEN shiftUpN(ts, 4)
          ELSE IF op \in KeepOps THEN ts
          ELSE IF op \in BinaryOps THEN shiftUp(mergeTaintStacks(ts, 1, 0))
          ELSE IF op \in {"ADDMOD", "MULMOD"}
               THEN shiftUpN(mergeTaintStacks(mergeTaintStacks(ts, 2, 0), 2, 1), 2)
          ELSE IF op \in {"POP", "JUMP"} THEN shiftUp(ts)
          ELSE IF op \in {"SSTORE", "JUMPI", "RETURN", "REVERT"} THEN shiftUpN(ts, 2)
          ELSE IF op \in DOMAIN DupN THEN copyTaintStack(shiftDown(ts), DupN[op], 0)
          ELSE IF op \in DOMAIN SwapN THEN swapTaintStacks(ts, SwapN[op])
          ELSE IF op \in DOMAIN LogN THEN shiftUpN(ts, LogN[op] + 2)
          ELSE IF op = "CREATE" THEN shiftDown(shiftUpN(ts, 3))
          ELSE IF op = "CREATE2" THEN shiftUpN(ts, 4)
          ELSE IF op \in {"CALL", "CALLCODE"} THEN shiftDown(shiftUpN(ts, 7))
          ELSE IF op \in {"DELEGATECALL", "STATICCALL"} THEN shiftDown(shiftUpN(ts, 6))
          ELSE ts
        mem ==
          IF DOMAIN ts = {} THEN ta.taintMemory
          ELSE IF op = "MSTORE" THEN stackToMemory(ta, 1, offset, offset + 32).taintMemory
          ELSE IF op = "MSTORE8" THEN stackToMemory(ta, 1, offset, offset + 1).taintMemory
          ELSE ta.taintMemory
    IN  [ta EXCEPT !.taintStacks = out, !.taintMemory = mem]

(***************************************************************************)
(* bugdetector: BugMap and bug ids.  A bug id is the tuple of the parts    *)
(* its string is formatted from: <<kind, address, pc, opcode name>>, with  *)
(* pc 0 and an empty name for ETHERLEAKING-<address>.  The BugMap is the   *)
(* set of its keys (the value of a key is the time it was covered).        *)
(***************************************************************************)
NewBugMap == {}

CoverBug(bugMap, bugId) == bugMap \cup {bugId}

BugId(kind, address, pc, op) == <<kind, address, pc, op>>

\* uint256 arithmetic at the width of the model's words
WordBits == 3

WordMod == 2 ^ WordBits

\* isOverflowTaintSource: a is Stack.Back(0), b is Stack.Back(1)
isOverflowTaintSource(op, a, b) ==
    IF op = "ADD" THEN ((a + b) % WordMod < a) \/ ((a + b) % WordMod < b)
    ELSE IF op = "SUB" THEN a < b
    ELSE IF op = "MUL"
         THEN IF a = 0 \/ b = 0 THEN FALSE
              ELSE ((a * b) % WordMod < a) \/ ((a * b) % WordMod < b)
    ELSE FALSE

isOverflowTaintSunk(op, ta) ==
    IF op \in {"LT", "GT", "SLT", "SGT", "EQ"}
    THEN IsTaintedByString(ta, OVERFLOW_ID, 0) \/ IsTaintedByString(ta, OVERFLOW_ID, 1)
    ELSE IF op = "ISZERO" THEN IsTaintedByString(ta, OVERFLOW_ID, 0)
    ELSE IF op = "CALL"
         THEN IsTaintedByString(ta, OVERFLOW_ID, 0) \/ IsTaintedByString(ta, OVERFLOW_ID, 2)
    ELSE IF op = "SSTORE" THEN IsTaintedByString(ta, OVERFLOW_ID, 1)
    ELSE FALSE

\* the interpreter's opcodes of block information, the bytes 0x40 .. 0x48
BlockOpCodes ==
    << "BLOCKHASH", "COINBASE", "TIMESTAMP", "NUMBER", "DIFFICULTY", "GASLIMIT",
       "CHAINID", "SELFBALANCE", "BASEFEE" >>

\* the name of an opcode byte; bytes outside 0x40 .. 0x48 are not told apart
OpCodeString(opcode) ==
    IF opcode \in 64..72 THEN BlockOpCodes[opcode - 63] ELSE "other"

\* the byte of an opcode; 0 stands for every byte outside 0x40 .. 0x48
OpCodeByte(op) ==
    IF \E k \in DOMAIN BlockOpCodes : BlockOpCodes[k] = op
    THEN 63 + (CHOOSE k \in DOMAIN BlockOpCodes : BlockOpCodes[k] = op)
    ELSE 0

\* the comparisons with 0x42, 0x43, 0x44, 0x45, 0x46 and 0x47
isBlockDependencyTaintSource(opcode) ==
    \/ opcode = 66 \/ opcode = 67 \/ opcode = 68
    \/ opcode = 69 \/ opcode = 70 \/ opcode = 71

AnyTaintedByString(ta, id, indexes) == \E i \in indexes : IsTaintedByString(ta, id, i)

isBlockDependencyTaintSunk(op, ta) ==
    IF op \in {"LT", "GT", "SLT", "SGT", "EQ"}
    THEN AnyTaintedByString(ta, BLOCK_DEPENDENCY_ID, {0, 1})
    ELSE IF op = "ISZERO" THEN AnyTaintedByString(ta, BLOCK_DEPENDENCY_ID, {0})
    ELSE IF op \in {"CALL", "CALLCODE"}
         THEN AnyTaintedByString(ta, BLOCK_DEPENDENCY_ID, {0, 1, 2, 3, 4})
    ELSE IF op \in {"DELEGATECALL", "STATICCALL"}
         THEN AnyTaintedByString(ta, BLOCK_DEPENDENCY_ID, {0, 1, 2, 3})
    ELSE IF op = "CREATE" THEN AnyTaintedByString(ta, BLOCK_DEPENDENCY_ID, {0, 1, 2})
    ELSE IF op = "CREATE2" THEN AnyTaintedByString(ta, BLOCK_DEPENDENCY_ID, {0, 1, 2, 3})
    ELSE FALSE

(***************************************************************************)
(* bugdetector: the oracles run by OnOpcode.  Each takes the tracer t (a   *)
(* record of the fields of BugDetectorTracer) and gives the tracer after   *)
(* it; lastCall is callFrameStates[len(callFrameStates)-1].  A frame       *)
(* state's sloadPoints maps the id of an SLOAD taint to the slot loaded    *)
(* (the loaded value it also stores is read nowhere), taintedCallPoints    *)
(* and taintedJUMPIPoints map an id to the set of SLOAD ids appended under *)
(* it.                                                                     *)
(***************************************************************************)
LastIndex(t) == Len(t.callFrameStates)

detect_overflow(t, pc, op, a, b) ==
    LET i == LastIndex(t)
        lastCall == t.callFrameStates[i]
    IN  IF t.helperContract = lastCall.to THEN t
        ELSE IF isOverflowTaintSource(op, a, b)
        THEN [t EXCEPT !.callFrameStates[i].taintAnalyzer =
                          AddTaintSourceByString(@, OVERFLOW_ID)]
        ELSE IF isOverflowTaintSunk(op, lastCall.taintAnalyzer)
        THEN [t EXCEPT !.callFrameStates[i].overflowPoints =
                          @ \cup {BugId("OVERFLOW", lastCall.codeAddress, pc, op)}]
        ELSE t

detect_suicidal(t, pc, op) ==
    LET i == LastIndex(t)
        lastCall == t.callFrameStates[i]
    IN  IF op = "SELFDESTRUCT"
        THEN [t EXCEPT !.callFrameStates[i].selfdestructPoints =
                          @ \cup {BugId("SUICIDAL", lastCall.codeAddress, pc, op)}]
        ELSE t

detect_block_dependency(t, pc, op) ==
    LET i == LastIndex(t)
        lastCall == t.callFrameStates[i]
    IN  IF t.helperContract = lastCall.to THEN t
        ELSE IF isBlockDependencyTaintSource(OpCodeByte(op))
        THEN [t EXCEPT !.callFrameStates[i].taintAnalyzer =
                          AddTaintSourceByString(@, BLOCK_DEPENDENCY_ID)]
        ELSE IF isBlockDependencyTaintSunk(op, lastCall.taintAnalyzer)
        THEN [t EXCEPT !.bugMap =
                          CoverBug(@, BugId("BLOCKDEPENDENCY", lastCall.codeAddress, pc, op))]
        ELSE t

isReentrancyTaintSunk(id, op, ta) ==
    IF op = "CALL"
    THEN IsTaintedById(ta, id, 2) \/ IsTaintedById(ta, id, 3) \/ IsTaintedById(ta, id, 4)
    ELSE IF op = "JUMPI" THEN IsTaintedById(ta, id, 1)
    ELSE FALSE

GasStipend == 2300

\* detect_reentrancy: key is Stack.Back(0) of SLOAD and SSTORE, gas is
\* Stack.Back(0) of CALL
detect_reentrancy(t, pc, op, key, gas) ==
    LET i == LastIndex(t)
        lastCall == t.callFrameStates[i]
        sunk == {id \in DOMAIN lastCall.sloadPoints :
                    isReentrancyTaintSunk(id, op, lastCall.taintAnalyzer)}
        byJumpi == UNION {lastCall.taintedJUMPIPoints[j] :
                             j \in DOMAIN lastCall.taintedJUMPIPoints}
        linked == sunk \cup byJumpi
        found == {c \in DOMAIN lastCall.taintedCallPoints :
                     \E sloadId \in lastCall.taintedCallPoints[c] :
                         key = lastCall.sloadPoints[sloadId]}
    IN  IF ~lastCall.isContract THEN t
        ELSE IF t.helperContract = lastCall.to THEN t
        ELSE IF op = "SLOAD"
        THEN [t EXCEPT !.callFrameStates[i].taintAnalyzer = AddTaintSource(@, op, pc),
                       !.callFrameStates[i].sloadPoints = Put(@, TaintId(op, pc), key)]
        ELSE IF op = "JUMPI"
        THEN IF sunk = {} THEN t
             ELSE [t EXCEPT !.callFrameStates[i].taintedJUMPIPoints =
                               Put(@, <<pc, op>>, Get(@, <<pc, op>>) \cup sunk)]
        ELSE IF op = "CALL"
        THEN IF gas > GasStipend /\ linked # {}
             THEN [t EXCEPT !.callFrameStates[i].taintedCallPoints =
                               Put(@, <<pc, op>>, Get(@, <<pc, op>>) \cup linked)]
             ELSE t
        ELSE IF op = "SSTORE"
        THEN IF lastCall.isTouchedAdversialAddress
             THEN [t EXCEPT !.bugMap =
                      @ \cup {BugId("REENTRANCY", lastCall.codeAddress, c[1], c[2]) :
                                 c \in found}]
             ELSE t
        ELSE t

InSeq(x, sq) == \E k \in DOMAIN sq : sq[k] = x

isUnsafeDelegatecallTaintSourceStack(op) ==
    op \in {"CALLDATALOAD", "CALLDATASIZE", "CALLVALUE", "GASPRICE", "ORIGIN", "CALLER"}

isTaintedByUnsafeDelegatecall(ta, stackIndex) ==
    \E o \in {"CALLDATALOAD", "CALLDATASIZE", "CALLVALUE", "GASPRICE", "ORIGIN",
              "CALLDATACOPY"} : IsTaintedByOpcode(ta, o, stackIndex)

isUnsafeDelegatecallTaintSunk(ta) ==
    \E k \in {0, 1, 2, 3} : isTaintedByUnsafeDelegatecall(ta, k)

\* detect_unsafe_delegatecall: toAddress is Stack.Back(1) of DELEGATECALL.
\* No CALLDATACOPY runs in the model, so no memory is tainted.
detect_unsafe_delegatecall(t, pc, op, toAddress) ==
    LET i == LastIndex(t)
        lastCall == t.callFrameStates[i]
        isFromAttacker == InSeq(lastCall.from, t.adversarialAddresses)
        t1 == IF isFromAttacker /\ isUnsafeDelegatecallTaintSourceStack(op)
              THEN [t EXCEPT !.callFrameStates[i].taintAnalyzer =
                                AddTaintSourceByOpcode(@, op)]
              ELSE t
        flag == \/ InSeq(toAddress, t.adversarialAddresses)
                \/ isUnsafeDelegatecallTaintSunk(t1.callFrameStates[i].taintAnalyzer)
    IN  IF t.helperContract = lastCall.to THEN t
        ELSE IF op = "DELEGATECALL" /\ flag
        THEN [t1 EXCEPT !.bugMap =
                 CoverBug(@, BugId("UNSAFEDELEGATECALL", lastCall.codeAddress, pc, op))]
        ELSE t1

\* BugDetectorTracer.OnOpcode as a function of the tracer: x holds what the
\* hook reads through scope (the executing address and the stack operands)
Tracer_OnOpcode(t, pc, op, x) ==
    LET i == t.callDepth + 1
        t0 == IF ~t.callFrameStates[i].isContract
              THEN [t EXCEPT !.callFrameStates[i].isContract = TRUE,
                             !.callFrameStates[i].to = x.address]
              ELSE t
        t1 == IF t.config.IntegerOverflow THEN detect_overflow(t0, pc, op, x.a, x.b) ELSE t0
        t2 == IF t.config.Suicidal THEN detect_suicidal(t1, pc, op) ELSE t1
        t3 == IF t.config.BlockDependency THEN detect_block_dependency(t2, pc, op) ELSE t2
        t4 == IF t.config.Reentrancy THEN detect_reentrancy(t3, pc, op, x.key, x.gas) ELSE t3
        t5 == IF t.config.UnsafeDelegateCall
              THEN detect_unsafe_delegatecall(t4, pc, op, x.to) ELSE t4
    IN  [t5 EXCEPT !.callFrameStates[i].taintAnalyzer = PropagateTaint(@, op, x.a),
                   !.callFrameStates[i].operationIndex = @ + 1]

(***************************************************************************)
(* bugdetector: what OnEnter and OnExit do to the tracer.  bal is the      *)
(* balance of each account in the state database at the time of the hook.  *)
(***************************************************************************)
NoEther == -1

RECURSIVE SumBalances(_, _)
SumBalances(addrs, bal) ==
    IF addrs = << >> THEN 0 ELSE bal[Head(addrs)] + SumBalances(Tail(addrs), bal)

EtherExceeds_Geq(lastEther, originalEther) == lastEther >= originalEther

\* lastEther.Cmp(tracer.originalEther) > 0
EtherExceeds(lastEther, originalEther) == lastEther > originalEther

EtherLeakingId_To(lastCall) == BugId("ETHERLEAKING", lastCall.to, 0, "")

EtherLeakingId(lastCall) == BugId("ETHERLEAKING", lastCall.from, 0, "")

\* big.Int.Cmp dereferences its argument: with originalEther never set the
\* comparison of detect_etherleaking is a nil pointer dereference
detect_etherleaking_panics(t) ==
    /\ ~InSeq(t.callFrameStates[LastIndex(t)].from, t.adversarialAddresses)
    /\ t.originalEther = NoEther

detect_etherleaking(t, bal) ==
    LET i == LastIndex(t)
        lastCall == t.callFrameStates[i]
        lastEther == SumBalances(t.adversarialAddresses, bal)
    IN  IF InSeq(lastCall.from, t.adversarialAddresses) THEN t
        ELSE IF EtherExceeds(lastEther, t.originalEther)
        THEN [t EXCEPT !.callFrameStates[i].etherleakingPoints =
                          @ \cup {EtherLeakingId(lastCall)}]
        ELSE t

isTouchedAdversialAddress(t) ==
    LET i == LastIndex(t)
    IN  IF InSeq(t.callFrameStates[i].to, t.adversarialAddresses)
        THEN [t EXCEPT !.callFrameStates[i].isTouchedAdversialAddress = TRUE]
        ELSE t

MergePoints_Drop(parentPoints, lastPoints) == parentPoints

\* for id := range lastCall.xPoints { parentCall.xPoints[id] = true }
MergePoints(parentPoints, lastPoints) == parentPoints \cup lastPoints

\* confirm_suicidal, confirm_etherleaking, confirm_overflow: CoverBug of
\* each id of the points set of lastCall
confirm_points(t, points) == [t EXCEPT !.bugMap = @ \cup points]

NewBugDetectorTracer(helperContract, config) ==
    [helperContract |-> helperContract, bugMap |-> NewBugMap,
     callFrameStates |-> << >>, callDepth |-> 0, config |-> config,
     originalEther |-> NoEther, adversarialAddresses |-> << >>]

RECURSIVE SumSeq(_)
SumSeq(bs) == IF bs = << >> THEN 0 ELSE Head(bs) + SumSeq(Tail(bs))

SetOriginalEther(t, bs) == [t EXCEPT !.originalEther = SumSeq(bs)]

SetAdversarialAddresses(t, ads) == [t EXCEPT !.adversarialAddresses = @ \o ads]

Tracer_OnTxStart_KeepFrames(t) ==
    [t EXCEPT !.callDepth = 0, !.bugMap = NewBugMap]

Tracer_OnTxStart(t) ==
    [t EXCEPT !.callDepth = 0, !.bugMap = NewBugMap, !.callFrameStates = << >>]

NewCallFrameState(typ, from, to) ==
    [create |-> typ \in {"CREATE", "CREATE2"}, from |-> from, to |-> to,
     codeAddress |-> to, isContract |-> FALSE, operationIndex |-> 0,
     taintAnalyzer |-> NewTaintAnalyzer, overflowPoints |-> {},
     etherleakingPoints |-> {}, selfdestructPoints |-> {},
     taintedCallPoints |-> EmptyMap, sloadPoints |-> EmptyMap,
     taintedJUMPIPoints |-> EmptyMap, isTouchedAdversialAddress |-> FALSE]

Tracer_OnEnter_InheritTaint(t, depth, typ, from, to) ==
    [t EXCEPT !.callDepth = IF depth # 0 THEN @ + 1 ELSE @,
              !.callFrameStates =
                  Append(@, [NewCallFrameState(typ, from, to) EXCEPT
                               !.taintAnalyzer =
                                   IF depth # 0
                                   THEN t.callFrameStates[Len(t.callFrameStates)].taintAnalyzer
                                   ELSE @])]

Tracer_OnEnter_AlwaysDeeper(t, depth, typ, from, to) ==
    [t EXCEPT !.callDepth = @ + 1,
              !.callFrameStates = Append(@, NewCallFrameState(typ, from, to))]

Tracer_OnEnter(t, depth, typ, from, to) ==
    [t EXCEPT !.callDepth = IF depth # 0 THEN @ + 1 ELSE @,
              !.callFrameStates = Append(@, NewCallFrameState(typ, from, to))]

\* OnExit, run when detect_etherleaking does not panic
Tracer_OnExit(t, depth, reverted, bal) ==
    LET t1 == isTouchedAdversialAddress(detect_etherleaking(t, bal))
        i == LastIndex(t1)
        lastCall == t1.callFrameStates[i]
        t2 ==
        IF reverted THEN t
        ELSE IF depth # 0
        THEN [t1 EXCEPT
                !.callFrameStates[i - 1].etherleakingPoints =
                    MergePoints(@, lastCall.etherleakingPoints),
                !.callFrameStates[i - 1].overflowPoints =
                    MergePoints(@, lastCall.overflowPoints),
                !.callFrameStates[i - 1].selfdestructPoints =
                    MergePoints(@, lastCall.selfdestructPoints),
                !.callFrameStates[i - 1].isTouchedAdversialAddress =
                    @ \/ lastCall.isTouchedAdversialAddress]
        ELSE confirm_points(
                 confirm_points(confirm_points(t1, lastCall.selfdestructPoints),
                                lastCall.etherleakingPoints),
                 lastCall.overflowPoints)
    IN  IF depth # 0
        THEN [t2 EXCEPT !.callFrameStates = SubSeq(@, 1, t2.callDepth),
                        !.callDepth = @ - 1]
        ELSE t2

(***************************************************************************)
(* The chain the bug detector is attached to.  A is a fuzzing sender, H    *)
(* the fuzz helper contract, V a contract under test and D the deployer,   *)
(* which is no fuzzing sender.  attachBugDetector is the bug detector part *)
(* of attachTracersToChain.                                                *)
(***************************************************************************)
SenderAddresses == <<"A">>

SenderAddressBalances == <<1>>

FuzzHelperContractAddress == "H"

InitialBalances == [a \in {"A", "D", "V", "H", "W"} |-> IF a \in {"A", "V"} THEN 1 ELSE 0]

BugConfig(all, etherLeaking, unsafeDelegateCall) ==
    [IntegerOverflow |-> all, Suicidal |-> all, BlockDependency |-> all,
     Reentrancy |-> TRUE, UnsafeDelegateCall |-> unsafeDelegateCall,
     EtherLeaking |-> etherLeaking]

attachBugDetector(config) ==
    LET t0 == NewBugDetectorTracer(FuzzHelperContractAddress, config)
        t1 == IF config.EtherLeaking
              THEN SetOriginalEther(t0, SenderAddressBalances) ELSE t0
        ads == IF FuzzHelperContractAddress # ZeroAddress
               THEN SenderAddresses \o <<FuzzHelperContractAddress>>
               ELSE SenderAddresses
    IN  IF config.EtherLeaking \/ config.UnsafeDelegateCall
        THEN SetAdversarialAddresses(t1, ads) ELSE t1

(***************************************************************************)
(* The code the interpreter runs; the opcode of pc is at index pc + 1.     *)
(* VictimCode: a dispatch on the input, then either a loop that loads a    *)
(* slot named by the input, sends the loaded value to the caller and may   *)
(* repeat, followed by a store to a slot named by the input; or an         *)
(* addition of two inputs compared with the timestamp, which may end in a  *)
(* selfdestruct to the caller.  HelperCode may call V back.                *)
(***************************************************************************)
VictimCode ==
    << "PUSH", "CALLDATALOAD", "PUSH", "JUMPI",
       "JUMPDEST", "PUSH", "PUSH", "PUSH", "PUSH", "PUSH", "CALLDATALOAD", "SLOAD",
       "DUP1", "ISZERO", "PUSH", "JUMPI", "CALLER", "GAS", "CALL", "POP",
       "PUSH", "CALLDATALOAD", "PUSH", "JUMPI",
       "PUSH", "PUSH", "CALLDATALOAD", "SSTORE", "JUMPDEST", "STOP",
       "JUMPDEST", "PUSH", "CALLDATALOAD", "PUSH", "CALLDATALOAD", "ADD",
       "TIMESTAMP", "LT", "PUSH", "JUMPI", "STOP",
       "JUMPDEST", "CALLER", "SELFDESTRUCT" >>

HelperCode ==
    << "GAS", "PUSH", "JUMPI", "PUSH", "PUSH", "PUSH", "PUSH", "PUSH", "PUSH",
       "GAS", "CALL", "POP", "JUMPDEST", "STOP" >>

\* ProxyCode: a dispatch on the input, then a delegatecall to the library D
\* whose input size is either a word of the call data or the call value
ProxyCode ==
    << "PUSH", "PUSH", "PUSH", "CALLDATALOAD", "PUSH", "JUMPI",
       "PUSH", "CALLDATALOAD", "PUSH", "PUSH", "GAS", "DELEGATECALL", "POP", "STOP",
       "JUMPDEST", "CALLVALUE", "PUSH", "PUSH", "GAS", "DELEGATECALL", "POP", "STOP" >>

CodeAt(a) == IF a = "H" THEN HelperCode ELSE IF a = "W" THEN ProxyCode ELSE VictimCode

JumpTarget(a, pc) ==
    IF a = "H" THEN 12
    ELSE IF a = "W" THEN 14
    ELSE IF pc = 3 THEN 30 ELSE IF pc = 15 THEN 28 ELSE IF pc = 23 THEN 4 ELSE 41

\* the callee of the CALL or DELEGATECALL of the code: V calls its caller,
\* H calls V, W delegates to D
CallTarget(sc) ==
    IF sc.address = "H" THEN "V" ELSE IF sc.address = "W" THEN "D" ELSE sc.from

MaxFrames == 4

MaxLoops == 1

(***************************************************************************)
(* The interpreter's stack, by provenance: each item is the set of storage *)
(* slots whose loaded value, and of input opcodes whose pushed value,      *)
(* reached it through DUP, SWAP and arithmetic.  Head is the top of the    *)
(* stack.                                                                  *)
(***************************************************************************)
Drop(st, n) == SubSeq(st, n + 1, Len(st))

Flow(st, op, key) ==
    IF op \in {"CALLDATASIZE", "CALLVALUE", "GASPRICE", "ORIGIN", "CALLER"}
    THEN <<{op}>> \o st
    ELSE IF op \in PushOps THEN <<{}>> \o st
    ELSE IF op = "CALLDATALOAD" THEN <<{op}>> \o Drop(st, 1)
    ELSE IF op = "SLOAD" THEN <<{key}>> \o Drop(st, 1)
    ELSE IF op \in BinaryOps THEN <<st[1] \cup st[2]>> \o Drop(st, 2)
    ELSE IF op \in {"POP", "SELFDESTRUCT"} THEN Drop(st, 1)
    ELSE IF op \in {"SSTORE", "JUMPI"} THEN Drop(st, 2)
    ELSE IF op \in DOMAIN DupN THEN <<st[DupN[op]]>> \o st
    ELSE IF op = "CALL" THEN <<{}>> \o Drop(st, 7)
    ELSE IF op = "DELEGATECALL" THEN <<{}>> \o Drop(st, 6)
    ELSE st

(***************************************************************************)
(* The bug detector under the hooks of the interpreter.  bug.t is the      *)
(* tracer, bug.bal the state database's balances, bug.scopes the frames    *)
(* the interpreter is in (innermost last), bug.pendingEnter the call whose *)
(* OnEnter is due.  History of the transaction, read by the properties     *)
(* only: frames are numbered in the order they are entered; parentOf and   *)
(* status give each frame's parent (0 for the top-level frame) and how it  *)
(* exited; proposals holds <<id, n>> for each id an oracle put into one of *)
(* the points sets of frame n; leaks holds <<from, n>> for each call frame *)
(* n that paid the sender of the transaction and at whose non-reverted     *)
(* exit that sender held more than its configured balance; a scope's armed *)
(* holds <<slot, pc>> for each CALL at pc with gas above the stipend whose *)
(* positions 2..4 held a value loaded from slot and whose callee, at an    *)
(* adversarial address, exited without revert; a scope's loaded holds the  *)
(* slots the frame has loaded, called those loaded before a CALL of the    *)
(* frame with gas above the stipend, ready those called before a child of  *)
(* the frame at an adversarial address exited without revert.              *)
(***************************************************************************)
NoEnter == [typ |-> "none", from |-> "", to |-> "", value |-> 0]

\* the shadow state of a frame: its taint analyzer (shadow stack and shadow
\* memory) and its sload, call and jumpi tables
Shadow(frame) ==
    [taintAnalyzer |-> frame.taintAnalyzer, sloadPoints |-> frame.sloadPoints,
     taintedCallPoints |-> frame.taintedCallPoints,
     taintedJUMPIPoints |-> frame.taintedJUMPIPoints]

EmptyShadow ==
    [taintAnalyzer |-> NewTaintAnalyzer, sloadPoints |-> EmptyMap,
     taintedCallPoints |-> EmptyMap, taintedJUMPIPoints |-> EmptyMap]

BugInit ==
    /\ sets = Idle
    /\ cov = Idle
    /\ df = Idle
    /\ dist = Idle /\ acc = Idle
    \* every oracle; every oracle but ether leaking; reentrancy alone
    /\ \E config \in {BugConfig(TRUE, TRUE, TRUE), BugConfig(TRUE, FALSE, TRUE),
                      BugConfig(FALSE, FALSE, FALSE)} :
         bug = [attached |-> "bug", panicked |-> FALSE, phase |-> "idle",
                t |-> attachBugDetector(config), bal |-> InitialBalances,
                scopes |-> << >>, pendingEnter |-> NoEnter, txFrom |-> "",
                nframes |-> 0, parentOf |-> << >>, status |-> << >>,
                proposals |-> {}, leaks |-> {}, sumAtTxStart |-> 0,
                last |-> NoHook, result |-> NewBugMap]

ClearPoints(t) ==
    [t EXCEPT !.callFrameStates[LastIndex(t)].overflowPoints = {},
              !.callFrameStates[LastIndex(t)].selfdestructPoints = {},
              !.callFrameStates[LastIndex(t)].etherleakingPoints = {}]

PointsOf(frame) ==
    frame.overflowPoints \cup frame.selfdestructPoints \cup frame.etherleakingPoints

\* the transaction: from sends value to the contract to
Bug_OnTxStart(from, to, value) ==
    /\ bug.attached = "bug" /\ ~bug.panicked
    /\ bug.phase = "idle"
    /\ value <= bug.bal[from]
    /\ bug' = [bug EXCEPT
                 !.phase = "tx",
                 !.t = Tracer_OnTxStart(@),
                 !.pendingEnter = [typ |-> "CALL", from |-> from, to |-> to,
                                   value |-> value],
                 !.txFrom = from,
                 !.nframes = 0, !.parentOf = << >>, !.status = << >>,
                 !.proposals = {}, !.leaks = {},
                 !.sumAtTxStart =
                     SumBalances(SenderAddresses \o <<FuzzHelperContractAddress>>, bug.bal),
                 !.last = [hook |-> "txstart", before |-> bug.t],
                 !.result = NewBugMap]
    /\ UNCHANGED <<sets, cov, df, dist, acc>>

Bug_OnEnter ==
    /\ bug.attached = "bug" /\ ~bug.panicked
    /\ bug.phase = "tx"
    /\ bug.pendingEnter.typ # "none"
    /\ LET e == bug.pendingEnter
           depth == Len(bug.scopes)
           n == bug.nframes + 1
           scope == [address |-> e.to, from |-> e.from, typ |-> e.typ,
                     value |-> e.value, pc |-> 0, stack |-> << >>, iter |-> 0,
                     n |-> n, snap |-> bug.bal, mapAtEntry |-> bug.t.bugMap,
                     armed |-> {}, pend |-> {},
                     loaded |-> {}, called |-> {}, ready |-> {},
                     parentShadow |-> IF depth = 0 THEN EmptyShadow
                                      ELSE Shadow(bug.t.callFrameStates[LastIndex(bug.t)]),
                     st |-> IF e.to \in {"V", "H", "W"} /\ e.typ = "CALL"
                            THEN "run" ELSE "halted"]
       IN  bug' = [bug EXCEPT
                     !.t = Tracer_OnEnter(@, depth, e.typ, e.from, e.to),
                     !.bal = [@ EXCEPT ![e.from] = @ - e.value, ![e.to] = @ + e.value],
                     !.scopes = Append(@, scope),
                     !.pendingEnter = NoEnter,
                     !.nframes = n,
                     !.parentOf = Append(@, IF depth = 0 THEN 0 ELSE bug.scopes[depth].n),
                     !.status = Append(@, "open"),
                     !.last = [hook |-> "enter"]]
    /\ UNCHANGED <<sets, cov, df, dist, acc>>

\* one instruction of the innermost frame: taken is the condition of a
\* JUMPI, key the slot of an SLOAD or SSTORE, a and b the operands of ADD,
\* gas and value the operands of CALL
Bug_OnOpcode(taken, key, a, b, gas, value) ==
    /\ bug.attached = "bug" /\ ~bug.panicked
    /\ bug.phase = "tx"
    /\ bug.pendingEnter.typ = "none"
    /\ bug.scopes # << >>
    /\ LET d == Len(bug.scopes)
           sc == bug.scopes[d]
           pc == sc.pc
           op == CodeAt(sc.address)[pc + 1]
           x == [address |-> sc.address, a |-> a, b |-> b, key |-> key,
                 gas |-> gas, to |-> CallTarget(sc)]
           proposed == PointsOf(LET c == Tracer_OnOpcode(ClearPoints(bug.t), pc, op, x)
                                IN  c.callFrameStates[LastIndex(c)])
           sent == IF op = "SELFDESTRUCT" THEN bug.bal[sc.address] ELSE value
           canCall == d <= MaxDepth /\ bug.nframes < MaxFrames
           skipsCall == IF sc.address = "H" THEN pc = 2 ELSE pc = 15
           repeats == sc.address = "V" /\ pc = 23
           flowed == IF gas > GasStipend
                     THEN {<<s, pc>> : s \in (sc.stack[3] \cup sc.stack[4] \cup sc.stack[5])
                                                \cap {"s1", "s2"}}
                     ELSE {}
       IN  /\ sc.st = "run"
           /\ op = "JUMPI" =>
                /\ (skipsCall /\ ~canCall) => taken
                /\ (repeats /\ taken) => sc.iter < MaxLoops
           /\ op = "CALL" => value <= bug.bal[sc.address]
           /\ bug' = [bug EXCEPT
                  !.t = Tracer_OnOpcode(@, pc, op, x),
                  !.proposals = @ \cup {<<id, sc.n>> : id \in proposed},
                  !.pendingEnter =
                      IF op \in {"CALL", "DELEGATECALL", "SELFDESTRUCT"}
                      THEN [typ |-> op, from |-> sc.address,
                            to |-> IF op = "SELFDESTRUCT" THEN sc.from ELSE CallTarget(sc),
                            value |-> IF op = "DELEGATECALL" THEN 0 ELSE sent]
                      ELSE @,
                  !.scopes[d] = [@ EXCEPT
                      !.pc = IF op = "JUMPI" /\ taken THEN JumpTarget(sc.address, pc)
                             ELSE IF op \in {"STOP", "SELFDESTRUCT"} THEN pc
                             ELSE pc + 1,
                      !.stack = Flow(@, op, key),
                      !.iter = IF repeats /\ taken THEN @ + 1 ELSE @,
                      !.pend = IF op = "CALL" THEN flowed ELSE {},
                      !.loaded = IF op = "SLOAD" THEN @ \cup {key} ELSE @,
                      !.called = IF op = "CALL" /\ gas > GasStipend
                                 THEN @ \cup sc.loaded ELSE @,
                      !.st = IF op = "STOP" THEN "halted"
                             ELSE IF op \in {"CALL", "DELEGATECALL", "SELFDESTRUCT"}
                             THEN "calling"
                             ELSE "run"],
                  !.last = [hook |-> "opcode", op |-> op, pc |-> pc, key |-> key,
                            address |-> sc.address, armed |-> sc.armed,
                            from |-> sc.from, ready |-> sc.ready,
                            mapBefore |-> bug.t.bugMap,
                            framesBefore |-> bug.t.callFrameStates,
                            top4 |-> UNION {sc.stack[k] : k \in 1..Min(4, Len(sc.stack))}]]
    /\ UNCHANGED <<sets, cov, df, dist, acc>>

Bug_OnExit(reverted) ==
    /\ bug.attached = "bug" /\ ~bug.panicked
    /\ bug.phase = "tx"
    /\ bug.pendingEnter.typ = "none"
    /\ bug.scopes # << >>
    /\ LET d == Len(bug.scopes)
           depth == d - 1
           sc == bug.scopes[d]
           proposed ==
               IF reverted THEN {}
               ELSE LET c == detect_etherleaking(ClearPoints(bug.t), bug.bal)
                    IN  c.callFrameStates[LastIndex(c)].etherleakingPoints
           paid == /\ ~reverted /\ sc.typ = "CALL" /\ sc.value > 0
                   /\ sc.address = bug.txFrom
                   /\ \E k \in DOMAIN SenderAddresses :
                         /\ SenderAddresses[k] = bug.txFrom
                         /\ bug.bal[bug.txFrom] > SenderAddressBalances[k]
           touched == ~reverted /\ InSeq(sc.address, bug.t.adversarialAddresses)
           parent == bug.scopes[depth]
           resumed == [parent EXCEPT
                         !.st = IF CodeAt(parent.address)[parent.pc + 1] = "SELFDESTRUCT"
                                THEN "halted" ELSE "run",
                         !.armed = IF touched THEN @ \cup parent.pend ELSE @,
                         !.ready = IF ~reverted /\ InSeq(sc.address,
                                         SenderAddresses \o <<FuzzHelperContractAddress>>)
                                   THEN @ \cup parent.called ELSE @,
                         !.pend = {}]
       IN  /\ sc.st = IF reverted THEN "run" ELSE "halted"
           /\ IF ~reverted /\ detect_etherleaking_panics(bug.t)
              THEN bug' = [bug EXCEPT !.panicked = TRUE, !.last = [hook |-> "panic"]]
              ELSE bug' = [bug EXCEPT
                     !.t = Tracer_OnExit(@, depth, reverted, bug.bal),
                     !.bal = IF reverted THEN sc.snap ELSE @,
                     !.scopes = IF depth = 0 THEN << >>
                                ELSE Append(SubSeq(@, 1, depth - 1), resumed),
                     !.phase = IF depth = 0 THEN "done" ELSE "tx",
                     !.status[sc.n] = IF reverted THEN "rev" ELSE "ok",
                     !.proposals = @ \cup {<<id, sc.n>> : id \in proposed},
                     !.leaks = IF paid THEN @ \cup {<<sc.from, sc.n>>} ELSE @,
                     !.last = [hook |-> "exit", reverted |-> reverted, depth |-> depth,
                               from |-> sc.from, to |-> sc.address, n |-> sc.n,
                               sum |-> SumBalances(
                                   SenderAddresses \o <<FuzzHelperContractAddress>>,
                                   bug.bal),
                               proposed |-> proposed,
                               mapAtEntry |-> sc.mapAtEntry,
                               parentShadow |-> sc.parentShadow,
                               childShadow |->
                                   Shadow(bug.t.callFrameStates[LastIndex(bug.t)])]]
    /\ UNCHANGED <<sets, cov, df, dist, acc>>

Bug_CaptureTxEnd ==
    /\ bug.attached = "bug" /\ ~bug.panicked
    /\ bug.phase = "done"
    /\ bug' = [bug EXCEPT !.phase = "idle", !.result = bug.t.bugMap,
                          !.last = [hook |-> "txend"]]
    /\ UNCHANGED <<sets, cov, df, dist, acc>>

\* the inputs the instruction at hand reads
NoInput == [taken |-> FALSE, key |-> "s1", a |-> 1, b |-> 1, gas |-> GasStipend, value |-> 0]

OpInputs ==
    IF bug.attached # "bug" \/ bug.scopes = << >> THEN {}
    ELSE LET sc == bug.scopes[Len(bug.scopes)]
             op == CodeAt(sc.address)[sc.pc + 1]
         IN  IF op = "JUMPI" THEN {[NoInput EXCEPT !.taken = v] : v \in BOOLEAN}
             ELSE IF op \in {"SLOAD", "SSTORE"}
             THEN {[NoInput EXCEPT !.key = v] : v \in {"s1", "s2"}}
             ELSE IF op = "ADD" THEN {[NoInput EXCEPT !.b = v] : v \in {1, WordMod - 1}}
             ELSE IF op = "CALL"
             THEN {[NoInput EXCEPT !.gas = g, !.value = v] :
                      g \in {GasStipend, GasStipend + 1}, v \in {0, 1}}
             ELSE {NoInput}

BugNext ==
    \/ \E from \in {"A", "D"}, to \in {"V", "H", "W"} : Bug_OnTxStart(from, to, 0)
    \/ Bug_OnEnter
    \/ \E in \in OpInputs : Bug_OnOpcode(in.taken, in.key, in.a, in.b, in.gas, in.value)
    \/ \E reverted \in BOOLEAN : Bug_OnExit(reverted)
    \/ Bug_CaptureTxEnd

SpecBug == BugInit /\ [][BugNext]_vars

(***************************************************************************)
(* C1.  Storage-write and token-flow tracers: when a frame F exits with    *)
(* reverted = true, nothing recorded in F (entries merged into F from its  *)
(* own non-reverted descendants included) is added to the pending set of   *)
(* F's parent, or to the tx-scoped set when F is the top-level frame: that *)
(* set is after the exit what it was before.  An opcode hook only adds to  *)
(* the pending set of its frame, so what the parent recorded itself is     *)
(* kept.                                                                   *)
(***************************************************************************)
SetsParentNow ==
    IF sets.last.depth = 0 THEN sets.tracer.set
    ELSE sets.tracer.callFrameStates[sets.tracer.callDepth + 1].pending

Extends(big, small) ==
    \A k \in DOMAIN small : k \in DOMAIN big /\ big[k] = small[k]

C1_RevertedFrameAddsNothing ==
    /\ (sets.last.hook = "exit" /\ sets.last.reverted)
          => SetsParentNow = sets.last.parentBefore
    /\ (sets.last.hook = "exit" /\ ~sets.last.reverted)
          => Extends(SetsParentNow, sets.last.parentBefore)
    /\ sets.last.hook = "op"
          => Extends(sets.tracer.callFrameStates[sets.tracer.callDepth + 1].pending,
                     sets.last.pendingBefore)

\* a reverted sub-frame that held entries of its own and entries merged from a
\* child has exited into a parent that had entries of its own
C1_Witness ==
    /\ sets.last.hook = "exit"
    /\ sets.last.reverted
    /\ sets.last.depth = 1
    /\ sets.last.exited.fromChildren # {}
    /\ (DOMAIN sets.last.exited.pending) \ sets.last.exited.fromChildren # {}
    /\ DOMAIN sets.last.parentBefore # {}
    /\ ~(DOMAIN sets.last.exited.pending \subseteq DOMAIN sets.last.parentBefore)

(***************************************************************************)
(* Bug detector: the history the properties read.                          *)
(***************************************************************************)
RECURSIVE CleanChain(_)
\* frame n and each of its ancestors up to the top-level frame exited
\* with reverted = false
CleanChain(n) ==
    /\ bug.status[n] = "ok"
    /\ bug.parentOf[n] = 0 \/ CleanChain(bug.parentOf[n])

CommitKinds == {"OVERFLOW", "SUICIDAL", "ETHERLEAKING"}

Committed(bugMap) == {id \in bugMap : id[1] \in CommitKinds}

AdversarialList == SenderAddresses \o <<FuzzHelperContractAddress>>

(***************************************************************************)
(* C3.  Bug detector commit rule: an OVERFLOW, SUICIDAL or ETHERLEAKING id *)
(* is in the transaction's BugMap at tx end if and only if it was proposed *)
(* in a frame such that this frame and every one of its ancestors up to    *)
(* and including the top-level frame exited with reverted = false; before  *)
(* the top-level frame's exit none of these ids is in the BugMap.          *)
(***************************************************************************)
C3_CommitRule ==
    bug.attached = "bug" =>
      /\ bug.phase = "tx" => Committed(bug.t.bugMap) = {}
      /\ bug.last.hook = "txend" =>
           Committed(bug.result) =
               {p[1] : p \in {q \in bug.proposals : CleanChain(q[2])}}

\* a transaction ended with an id proposed in a frame below the top-level one
C3_Witness ==
    /\ bug.attached = "bug"
    /\ bug.last.hook = "txend"
    /\ \E p \in bug.proposals : p[2] > 1 /\ CleanChain(p[2]) /\ p[1] \in bug.result

(***************************************************************************)
(* C4.  Bug detector: for every frame F that exits with reverted = true,   *)
(* the transaction's BugMap right after F's exit equals the BugMap right   *)
(* before F was entered.                                                   *)
(***************************************************************************)
C4_RevertedFrameRestoresBugMap ==
    (bug.attached = "bug" /\ bug.last.hook = "exit" /\ bug.last.reverted) =>
        bug.t.bugMap = bug.last.mapAtEntry

(***************************************************************************)
(* C7.  Reentrancy oracle: in a frame of a non-helper contract, if the     *)
(* value loaded from slot s reached one of positions 2, 3, 4 of a CALL at  *)
(* pc p with gas above 2300, the callee frame targeted an adversarial      *)
(* address and exited without revert, and the frame then executes SSTORE   *)
(* to slot s, then at that SSTORE the BugMap contains                      *)
(* REENTRANCY-<codeAddr>-<p>-CALL.                                         *)
(***************************************************************************)
C7_StoreAfterCallIsReported ==
    (/\ bug.attached = "bug"
     /\ bug.last.hook = "opcode"
     /\ bug.last.op = "SSTORE"
     /\ bug.last.address # FuzzHelperContractAddress) =>
        \A q \in bug.last.armed :
            q[1] = bug.last.key =>
                BugId("REENTRANCY", bug.last.address, q[2], "CALL") \in bug.t.bugMap

(***************************************************************************)
(* C8.  Ether-leaking oracle, as the code has it: with the oracle enabled, *)
(* at a non-reverted frame exit an ETHERLEAKING id is proposed if and only *)
(* if the frame was not entered from an adversarial address and the sum of *)
(* the adversarial addresses' balances at that moment exceeds the sum of   *)
(* the configured sender balances, set once when the tracer is attached.   *)
(***************************************************************************)
C8_ProposedIffAboveConfiguredSum ==
    (/\ bug.attached = "bug"
     /\ bug.t.config.EtherLeaking
     /\ bug.last.hook = "exit"
     /\ ~bug.last.reverted) =>
        (bug.last.proposed # {} <=>
            /\ ~InSeq(bug.last.from, AdversarialList)
            /\ bug.last.sum > SumSeq(SenderAddressBalances))

\* an id is proposed in a transaction during which the adversarial sum did
\* not change
C8_Witness ==
    /\ bug.attached = "bug"
    /\ bug.last.hook = "exit"
    /\ ~bug.last.reverted
    /\ bug.last.proposed # {}
    /\ bug.last.sum = bug.sumAtTxStart

\* C8 as stated: the sum is compared with the sum at the start of the
\* current transaction
C8_ProposedIffAboveSumAtTxStart ==
    (/\ bug.attached = "bug"
     /\ bug.last.hook = "exit"
     /\ ~bug.last.reverted) =>
        (bug.last.proposed # {} <=>
            /\ ~InSeq(bug.last.from, AdversarialList)
            /\ bug.last.sum > bug.sumAtTxStart)

C10_DisabledEtherLeakingNeverFails ==
    (bug.attached = "bug" /\ ~bug.t.config.EtherLeaking) =>
      /\ ~bug.panicked
      /\ \A p \in bug.proposals : p[1][1] # "ETHERLEAKING"
      /\ \A id \in bug.t.bugMap : id[1] # "ETHERLEAKING"

(***************************************************************************)
(* C11.  Whenever the reentrancy oracle is enabled, the adversarial        *)
(* addresses it consults are the configured senders and the helper         *)
(* contract, whatever the other oracles' settings; a frame whose child     *)
(* call targeted a configured sender and returned without revert is then   *)
(* marked as having touched an adversarial address.                        *)
(***************************************************************************)
C11_ReentrancyHasAdversarialAddresses ==
    (bug.attached = "bug" /\ bug.t.config.Reentrancy) =>
      /\ \A k \in DOMAIN AdversarialList :
            InSeq(AdversarialList[k], bug.t.adversarialAddresses)
      /\ (/\ bug.last.hook = "exit"
          /\ ~bug.last.reverted
          /\ bug.last.depth > 0
          /\ InSeq(bug.last.to, SenderAddresses)) =>
             bug.t.callFrameStates[LastIndex(bug.t)].isTouchedAdversialAddress

(***************************************************************************)
(* C12: with the unsafe-delegatecall oracle enabled, in a frame entered    *)
(* from an adversarial sender, when the value pushed by CALLDATALOAD,      *)
(* CALLDATASIZE, CALLVALUE, GASPRICE, ORIGIN or CALLER has reached one of  *)
(* the positions 0..3 of a DELEGATECALL at pc p, the id                    *)
(* UNSAFEDELEGATECALL-<code address>-<p>-DELEGATECALL is covered.          *)
(***************************************************************************)
C12_TaintedDelegatecallIsCovered ==
    (/\ bug.attached = "bug"
     /\ bug.last.hook = "opcode"
     /\ bug.last.op = "DELEGATECALL"
     /\ bug.t.config.UnsafeDelegateCall
     /\ InSeq(bug.last.from, AdversarialList)
     /\ bug.last.top4 \cap {"CALLDATALOAD", "CALLDATASIZE", "CALLVALUE",
                            "GASPRICE", "ORIGIN", "CALLER"} # {}) =>
        BugId("UNSAFEDELEGATECALL", bug.last.address, bug.last.pc, "DELEGATECALL")
            \in bug.t.bugMap

(***************************************************************************)
(* The block-dependency source predicate on its own: asked once about an   *)
(* opcode byte.                                                            *)
(***************************************************************************)
SourceInit ==
    /\ sets = Idle /\ cov = Idle /\ df = Idle /\ bug = Idle /\ dist = Idle
    /\ \E opcode \in 0..255 :
         acc = [attached |-> "source", opcode |-> opcode, asked |-> FALSE,
                isSource |-> FALSE]

Source_Ask ==
    /\ acc.attached = "source"
    /\ ~acc.asked
    /\ acc' = [acc EXCEPT !.asked = TRUE,
                          !.isSource = isBlockDependencyTaintSource(acc.opcode)]
    /\ UNCHANGED <<sets, cov, df, bug, dist>>

SpecBlockSource == SourceInit /\ [][Source_Ask]_vars

(***************************************************************************)
(* C13: for every opcode byte the block-dependency source predicate is     *)
(* true exactly for BLOCKHASH, COINBASE, TIMESTAMP, NUMBER, DIFFICULTY and *)
(* GASLIMIT, and false for every other opcode (CHAINID, SELFBALANCE, ...). *)
(***************************************************************************)
C13_SourcesAreTheSixBlockOpcodes ==
    (acc.attached = "source" /\ acc.asked) =>
        (acc.isSource <=>
            OpCodeString(acc.opcode) \in {"BLOCKHASH", "COINBASE", "TIMESTAMP",
                                          "NUMBER", "DIFFICULTY", "GASLIMIT"})

(***************************************************************************)
(* branchdistance: DistanceMapBranchData, BranchDistanceMaps.  A distance  *)
(* map entry is [executedFlags, distance]: the flags of the branch ids     *)
(* (NilFlags for a nil slice) and the distance of each executed id.  A     *)
(* 256-bit word is a number below WordMod.                                 *)
(***************************************************************************)
NewContractBranchDistanceMap == [executedFlags |-> NilFlags, distance |-> EmptyMap]

\* DistanceMapBranchData.update
BranchDistance_update(cm, other) ==
    IF other.executedFlags = NilFlags THEN cm
    ELSE IF cm.executedFlags = NilFlags
    THEN [executedFlags |-> other.executedFlags,
          distance |-> [i \in {j \in 0..(Len(other.executedFlags) - 1) :
                                  other.executedFlags[j + 1] = 1} |-> other.distance[i]]]
    ELSE LET n == Min(Len(cm.executedFlags), Len(other.executedFlags))
             fresh(i) == cm.executedFlags[i + 1] = 0 /\ other.executedFlags[i + 1] # 0
             nearer(i) == /\ cm.executedFlags[i + 1] = 1 /\ other.executedFlags[i + 1] = 1
                          /\ cm.distance[i] > other.distance[i]
             taken == {i \in 0..(n - 1) : fresh(i) \/ nearer(i)}
         IN  [executedFlags |->
                  [i \in 1..Len(cm.executedFlags) |->
                      IF i <= n /\ fresh(i - 1) THEN 1 ELSE cm.executedFlags[i]],
              distance |->
                  [i \in (DOMAIN cm.distance) \cup taken |->
                      IF i \in taken THEN other.distance[i] ELSE cm.distance[i]]]

\* DistanceMapBranchData.setDistanceAt
BranchDistance_setDistanceAt(cm, branchSize, id, distance) ==
    LET f == IF cm.executedFlags = NilFlags THEN [i \in 1..branchSize |-> 0]
             ELSE cm.executedFlags
    IN  IF id < Len(f) /\ f[id + 1] = 0
        THEN [executedFlags |-> [f EXCEPT ![id + 1] = 1],
              distance |-> Put(cm.distance, id, distance)]
        ELSE IF id < Len(f) /\ cm.distance[id] > distance
        THEN [executedFlags |-> f, distance |-> Put(cm.distance, id, distance)]
        ELSE [executedFlags |-> f, distance |-> cm.distance]

NewBranchDistanceMaps == [maps |-> EmptyMap, cached |-> NoKey]

\* BranchDistanceMaps.Update: an entry the receiver lacks becomes the entry
\* of the argument
BranchDistanceMaps_Update(cm, coverageMaps) ==
    [cm EXCEPT !.maps =
        [k \in (DOMAIN cm.maps) \cup (DOMAIN coverageMaps.maps) |->
            IF k \in DOMAIN cm.maps
            THEN IF k \in DOMAIN coverageMaps.maps
                 THEN BranchDistance_update(cm.maps[k], coverageMaps.maps[k])
                 ELSE cm.maps[k]
            ELSE coverageMaps.maps[k]]]

\* BranchDistanceMaps.SetAt
BranchDistanceMaps_SetAt(cm, codeAddress, codeLookupHash, branchSize, id, distance) ==
    IF branchSize = 0 THEN cm
    ELSE LET key == <<codeLookupHash, codeAddress>>
             entry == IF key \in DOMAIN cm.maps THEN cm.maps[key]
                      ELSE NewContractBranchDistanceMap
         IN  [maps |-> Put(cm.maps, key,
                           BranchDistance_setDistanceAt(entry, branchSize, id, distance)),
              cached |-> key]

\* BranchDistanceMaps.RevertAll: Reset on the distanceMap of every entry
BranchDistanceMaps_RevertAll(cm) ==
    [cm EXCEPT !.maps = [k \in DOMAIN cm.maps |-> NewContractBranchDistanceMap]]

(***************************************************************************)
(* branchdistance: the back-propagation over the cached operations of a    *)
(* frame.  An operation is [opcode, tmpStack], tmpStack the operand stack  *)
(* before the opcode runs, its top last.  sourceIndex counts from 0 as in  *)
(* the code, so the code's stack[k] is tmpStack[k + 1] here.               *)
(***************************************************************************)
\* the arithmetic of uint256.Int: Sub wraps, Sgt compares as two's complement
Sub(x, y) == (x - y + WordMod) % WordMod

Signed(x) == IF 2 * x >= WordMod THEN x - WordMod ELSE x

\* the loop of backPropagationToFindDistance looks at fewer than 40 operations
BackWindow == 40

RECURSIVE backPropagate(_, _, _, _)
backPropagate(ops, i, sourceIndex, baseValue) ==
    IF i < 1 \/ i - 1 <= Len(ops) - BackWindow THEN [diff |-> 0, bs |-> "NOTFOUND"]
    ELSE
      LET o == ops[i]
          op == o.opcode
          stack == o.tmpStack
          stackLen == Len(stack)
          x == stack[stackLen]
          y == stack[stackLen - 1]
          lastStack == ops[Len(ops)].tmpStack
          keep == [diff |-> 0, bs |-> "NOTFOUND", sourceIndex |-> sourceIndex,
                   baseValue |-> baseValue]
          found(d) == [keep EXCEPT !.diff = d, !.bs = "FOUND"]
          step ==
            IF op \in {"LT", "GT", "EQ"} /\ sourceIndex = stackLen - 2
            THEN found(IF x > y THEN Sub(x, y) ELSE Sub(y, x))
            ELSE IF op \in {"SLT", "SGT"} /\ sourceIndex = stackLen - 2
            THEN found(IF Signed(x) > Signed(y) THEN Sub(x, y) ELSE Sub(y, x))
            ELSE IF op = "AND" /\ sourceIndex = stackLen - 2
            THEN found(IF x > y THEN y ELSE x)
            ELSE IF op = "OR" /\ sourceIndex = stackLen - 2
            THEN found(IF x > y THEN x ELSE y)
            ELSE IF op = "NOT" /\ sourceIndex = stackLen - 1
            THEN [keep EXCEPT !.baseValue = IF baseValue = 0 THEN 1 ELSE 0]
            ELSE IF /\ op \in {"ADD", "MUL", "SUB", "DIV", "SDIV", "MOD", "SMOD",
                               "ADDMOD", "MULMOD"}
                    /\ sourceIndex = stackLen - 2
            THEN found(baseValue)
            ELSE IF op = "ISZERO" /\ sourceIndex = stackLen - 1 THEN found(baseValue)
            ELSE IF op = "SELFBALANCE" /\ sourceIndex = stackLen THEN found(baseValue)
            ELSE IF op \in DOMAIN DupN /\ sourceIndex = stackLen
            THEN [keep EXCEPT !.sourceIndex = stackLen - 1 - (DupN[op] - 1)]
            ELSE IF op \in DOMAIN SwapN
            THEN IF sourceIndex = stackLen - 1
                 THEN [keep EXCEPT !.sourceIndex = stackLen - 1 - SwapN[op]]
                 ELSE IF sourceIndex = stackLen - 1 - SwapN[op]
                 THEN [keep EXCEPT !.sourceIndex = stackLen - 1]
                 ELSE keep
            ELSE IF op = "PUSH" /\ sourceIndex = stackLen THEN found(baseValue)
            ELSE IF \/ op = "CALL" /\ sourceIndex = stackLen - 7
                    \/ op \in {"STATICCALL", "DELEGATECALL"} /\ sourceIndex = stackLen - 6
            THEN [keep EXCEPT !.diff = lastStack[Len(lastStack) - 1],
                              !.bs = "ENDWITHCALL"]
            ELSE IF op = "CALLVALUE" /\ sourceIndex = stackLen
            THEN found(ops[i + 1].tmpStack[sourceIndex + 1])
            ELSE keep
      IN  IF step.sourceIndex > stackLen
          THEN [diff |-> step.diff, bs |-> "STACKOUTOFSCOPE"]
          ELSE IF step.bs \in {"FOUND", "ENDWITHCALL"}
          THEN [diff |-> step.diff, bs |-> step.bs]
          ELSE backPropagate(ops, i - 1, step.sourceIndex, step.baseValue)

\* <<distance, status>> of the JUMPI that is the last cached operation
backPropagationToFindDistance(cachedOperations) ==
    LET lastOperation == cachedOperations[Len(cachedOperations)]
        sourceIndex == Len(lastOperation.tmpStack) - 2
    IN  IF lastOperation.opcode # "JUMPI" THEN [diff |-> 0, bs |-> "NOTJUMPI"]
        ELSE backPropagate(cachedOperations, Len(cachedOperations), sourceIndex,
                           lastOperation.tmpStack[sourceIndex + 1])

(***************************************************************************)
(* The hook stream of the branch-distance tracer.  dist.scopes holds the   *)
(* operand stack of each open frame (top last), which OnOpcode reads       *)
(* through its scope argument; every frame runs the code h1 at c1.         *)
(***************************************************************************)
\* number of OnOpcode hooks delivered in one transaction (dist.budget)
MaxTrace == 5

\* the operands an instruction takes from the stack
Arity(op) ==
    IF op \in {"PUSH", "CALLDATASIZE"} THEN 0
    ELSE IF op \in {"ISZERO", "NOT", "DUP1"} THEN 1
    ELSE 2

\* the interpreter's operand stack after the instruction; v is the word a
\* PUSH or CALLDATASIZE puts on it
Exec(stack, op, v) ==
    LET n == Len(stack)
        x == stack[n]
        y == stack[n - 1]
        below(k) == SubSeq(stack, 1, n - k)
    IN  IF op \in {"PUSH", "CALLDATASIZE"} THEN Append(stack, v)
        ELSE IF op = "LT" THEN Append(below(2), IF x < y THEN 1 ELSE 0)
        ELSE IF op = "GT" THEN Append(below(2), IF x > y THEN 1 ELSE 0)
        ELSE IF op = "EQ" THEN Append(below(2), IF x = y THEN 1 ELSE 0)
        ELSE IF op = "SLT" THEN Append(below(2), IF Signed(x) < Signed(y) THEN 1 ELSE 0)
        ELSE IF op = "SGT" THEN Append(below(2), IF Signed(x) > Signed(y) THEN 1 ELSE 0)
        ELSE IF op = "ADD" THEN Append(below(2), (x + y) % WordMod)
        ELSE IF op = "ISZERO" THEN Append(below(1), IF x = 0 THEN 1 ELSE 0)
        ELSE IF op = "NOT" THEN Append(below(1), WordMod - 1 - x)
        ELSE IF op = "DUP1" THEN Append(stack, x)
        ELSE IF op = "SWAP1" THEN below(2) \o <<x, y>>
        ELSE below(2)

NewBranchDistanceTracer ==
    [branchDistanceMaps |-> NewBranchDistanceMaps,
     callFrameStates |-> << >>,
     callDepth |-> 0]

BranchDistanceInit ==
    /\ sets = Idle /\ cov = Idle /\ df = Idle /\ bug = Idle /\ acc = Idle
    /\ dist = [attached |-> "branchdistance", phase |-> "idle", ops |-> 0,
               budget |-> MaxTrace, panicked |-> FALSE, scopes |-> << >>,
               tracer |-> NewBranchDistanceTracer,
               last |-> NoHook, result |-> NewBranchDistanceMaps]

BranchDistance_OnTxStart ==
    /\ dist.attached = "branchdistance" /\ ~dist.panicked
    /\ dist.phase = "idle"
    /\ dist' = [dist EXCEPT !.phase = "tx", !.ops = 0, !.scopes = << >>,
                            !.result = NewBranchDistanceMaps,
                            !.tracer = NewBranchDistanceTracer,
                            !.last = [hook |-> "txstart"]]
    /\ UNCHANGED <<sets, cov, df, bug, acc>>

BranchDistance_OnEnter(typ) ==
    /\ dist.attached = "branchdistance" /\ ~dist.panicked
    /\ dist.phase = "tx"
    /\ Len(dist.scopes) < MaxDepth
    /\ LET isTopLevelFrame == Len(dist.scopes) = 0
           frame == [initialized |-> FALSE,
                     create |-> typ \in {"CREATE", "CREATE2"},
                     pendingBranchDistanceMap |-> NewBranchDistanceMaps,
                     lookupHash |-> Nil,
                     cachedOperations |-> << >>,
                     address |-> Nil]
       IN  dist' = [dist EXCEPT
                      !.scopes = Append(@, << >>),
                      !.tracer.callDepth = IF isTopLevelFrame THEN @ ELSE @ + 1,
                      !.tracer.callFrameStates = Append(@, frame),
                      !.last = [hook |-> "enter"]]
    /\ UNCHANGED <<sets, cov, df, bug, acc>>

\* OnOpcode(pc, op, ..., scope, ...) and the instruction itself; v is the
\* word a PUSH or CALLDATASIZE puts on the stack
BranchDistance_OnOpcode(pc, op, v) ==
    /\ dist.attached = "branchdistance" /\ ~dist.panicked
    /\ dist.phase = "tx"
    /\ Len(dist.scopes) > 0
    /\ dist.ops < dist.budget
    /\ LET stack == dist.scopes[Len(dist.scopes)]
           t == dist.tracer
           i == t.callDepth + 1
           f0 == t.callFrameStates[i]
           f1 == [f0 EXCEPT
                    !.initialized = TRUE,
                    !.address = IF f0.initialized THEN @ ELSE "c1",
                    !.cachedOperations =
                        Append(@, [opcode |-> op, tmpStack |-> stack])]
           lookupHash == IF f1.lookupHash = Nil
                         THEN getContractCoverageMapHash("h1", f1.create)
                         ELSE f1.lookupHash
           cond == stack[Len(stack) - 1]
           back == backPropagationToFindDistance(f1.cachedOperations)
           vmErr == back.bs \in {"NOTJUMPI", "STACKOUTOFSCOPE"}
           panics == IF cond # 0 THEN ~(cond > 1) /\ vmErr ELSE vmErr
           distanceToCondIsZero ==
               IF cond # 0
               THEN ((IF cond > 1 THEN cond ELSE back.diff) + 1) % WordMod
               ELSE 0
           distanceToCondIsNotZero ==
               IF cond # 0 THEN 0 ELSE (back.diff + 1) % WordMod
           branchSize == BranchMap_Size(lookupHash)
           f2 == [f1 EXCEPT
                    !.lookupHash = lookupHash,
                    !.pendingBranchDistanceMap =
                        BranchDistanceMaps_SetAt(
                            BranchDistanceMaps_SetAt(@, "c1", lookupHash, branchSize,
                                GetBranchId(lookupHash, pc, FALSE), distanceToCondIsZero),
                            "c1", lookupHash, branchSize,
                            GetBranchId(lookupHash, pc, TRUE), distanceToCondIsNotZero)]
       IN  /\ Len(stack) >= Arity(op)
           /\ IF op # "JUMPI"
              THEN dist' = [dist EXCEPT
                              !.ops = @ + 1,
                              !.scopes[Len(dist.scopes)] = Exec(stack, op, v),
                              !.tracer.callFrameStates[i] = f1,
                              !.last = [hook |-> "op", op |-> op]]
              ELSE IF lookupHash \notin branchMaps
              THEN dist' = [dist EXCEPT
                              !.ops = @ + 1,
                              !.scopes[Len(dist.scopes)] = Exec(stack, op, v),
                              !.tracer.callFrameStates[i] =
                                  [f1 EXCEPT !.lookupHash = lookupHash],
                              !.last = [hook |-> "op", op |-> "skipped"]]
              ELSE IF panics
              THEN dist' = [dist EXCEPT !.panicked = TRUE,
                                        !.tracer.callFrameStates[i] =
                                            [f1 EXCEPT !.lookupHash = lookupHash],
                                        !.last = [hook |-> "panic"]]
              ELSE dist' = [dist EXCEPT
                              !.ops = @ + 1,
                              !.scopes[Len(dist.scopes)] = Exec(stack, op, v),
                              !.tracer.callFrameStates[i] = f2,
                              !.last = [hook |-> "op", op |-> op, pc |-> pc,
                                        cond |-> cond, status |-> back.bs,
                                        distanceToCondIsZero |-> distanceToCondIsZero,
                                        distanceToCondIsNotZero |->
                                            distanceToCondIsNotZero]]
    /\ UNCHANGED <<sets, cov, df, bug, acc>>

BranchDistance_OnExit(reverted) ==
    /\ dist.attached = "branchdistance" /\ ~dist.panicked
    /\ dist.phase = "tx"
    /\ Len(dist.scopes) > 0
    /\ LET depth == Len(dist.scopes) - 1
           t == dist.tracer
           i == t.callDepth + 1
           pending == t.callFrameStates[i].pendingBranchDistanceMap
           currentDistanceMap ==
               IF reverted THEN BranchDistanceMaps_RevertAll(pending) ELSE pending
           frames1 == [t.callFrameStates EXCEPT
                         ![i].pendingBranchDistanceMap = currentDistanceMap]
       IN  IF depth = 0
           THEN dist' = [dist EXCEPT
                           !.scopes = << >>,
                           !.phase = "ended",
                           !.tracer.branchDistanceMaps =
                               BranchDistanceMaps_Update(@, currentDistanceMap),
                           !.tracer.callFrameStates = frames1,
                           !.last = [hook |-> "exit"]]
           ELSE dist' = [dist EXCEPT
                           !.scopes = SubSeq(@, 1, Len(@) - 1),
                           !.tracer.callFrameStates =
                               SubSeq([frames1 EXCEPT
                                         ![i - 1].pendingBranchDistanceMap =
                                             BranchDistanceMaps_Update(@, currentDistanceMap)],
                                      1, t.callDepth),
                           !.tracer.callDepth = @ - 1,
                           !.last = [hook |-> "exit"]]
    /\ UNCHANGED <<sets, cov, df, bug, acc>>

BranchDistance_CaptureTxEnd ==
    /\ dist.attached = "branchdistance" /\ ~dist.panicked
    /\ dist.phase = "ended"
    /\ dist' = [dist EXCEPT !.phase = "idle",
                            !.result = dist.tracer.branchDistanceMaps,
                            !.last = [hook |-> "txend"]]
    /\ UNCHANGED <<sets, cov, df, bug, acc>>

BranchDistanceNext ==
    \/ BranchDistance_OnTxStart
    \/ BranchDistance_OnEnter("CALL")
    \/ \E v \in {0, 1, WordMod - 1} : BranchDistance_OnOpcode(0, "PUSH", v)
    \/ \E op \in {"CALLDATASIZE", "LT", "ADD", "ISZERO", "NOT", "DUP1", "SWAP1"} :
          BranchDistance_OnOpcode(0, op, 0)
    \/ \E pc \in Pcs : BranchDistance_OnOpcode(pc, "JUMPI", 0)
    \/ \E reverted \in BOOLEAN : BranchDistance_OnExit(reverted)
    \/ BranchDistance_CaptureTxEnd

SpecBranchDistance == BranchDistanceInit /\ [][BranchDistanceNext]_vars

(***************************************************************************)
(* C14: at every JUMPI the branch-distance tracer records, when the        *)
(* condition is not zero, the distance 0 for the id of the taken branch    *)
(* and a distance of at least 1 for the id of the fall-through branch, and *)
(* when the condition is zero the distance 0 for the fall-through branch   *)
(* and at least 1 for the taken branch, the addition of K = 1 in 256 bits  *)
(* included.                                                               *)
(***************************************************************************)
C14_ActiveSideIsPositive ==
    (/\ dist.attached = "branchdistance"
     /\ dist.last.hook = "op"
     /\ dist.last.op = "JUMPI") =>
        IF dist.last.cond # 0
        THEN dist.last.distanceToCondIsNotZero = 0 /\ dist.last.distanceToCondIsZero >= 1
        ELSE dist.last.distanceToCondIsZero = 0 /\ dist.last.distanceToCondIsNotZero >= 1

(***************************************************************************)
(* cmpdistance: DistanceMapBranchData, CmpDistanceMaps.  The entry of a    *)
(* <<code hash, address>> is its distance map, pc -> distance.             *)
(***************************************************************************)
CmpDistance_setDistanceAt_Overwrite(cm, id, distance) == Put(cm, id, distance)

\* DistanceMapBranchData.setDistanceAt
CmpDistance_setDistanceAt(cm, id, distance) ==
    IF id \notin DOMAIN cm THEN Put(cm, id, distance)
    ELSE IF cm[id] > distance THEN Put(cm, id, distance)
    ELSE cm

CmpDistance_update_Replace(cm, cmpDistanceMap) ==
    [id \in (DOMAIN cm) \cup (DOMAIN cmpDistanceMap) |->
        IF id \in DOMAIN cmpDistanceMap THEN cmpDistanceMap[id] ELSE cm[id]]

\* DistanceMapBranchData.update
CmpDistance_update(cm, cmpDistanceMap) ==
    [id \in (DOMAIN cm) \cup (DOMAIN cmpDistanceMap) |->
        IF id \notin DOMAIN cm THEN cmpDistanceMap[id]
        ELSE IF id \in DOMAIN cmpDistanceMap /\ cm[id] > cmpDistanceMap[id]
        THEN cmpDistanceMap[id]
        ELSE cm[id]]

NewCmpDistanceMaps == [maps |-> EmptyMap, cached |-> NoKey]

\* CmpDistanceMaps.Update: an entry the receiver lacks becomes the entry of
\* the argument
CmpDistanceMaps_Update(cm, coverageMaps) ==
    [cm EXCEPT !.maps =
        [k \in (DOMAIN cm.maps) \cup (DOMAIN coverageMaps.maps) |->
            IF k \in DOMAIN cm.maps
            THEN IF k \in DOMAIN coverageMaps.maps
                 THEN CmpDistance_update(cm.maps[k], coverageMaps.maps[k])
                 ELSE cm.maps[k]
            ELSE coverageMaps.maps[k]]]

\* CmpDistanceMaps.SetAt
CmpDistanceMaps_SetAt(cm, codeAddress, codeLookupHash, id, distance) ==
    LET key == <<codeLookupHash, codeAddress>>
        entry == IF key \in DOMAIN cm.maps THEN cm.maps[key] ELSE EmptyMap
    IN  [maps |-> Put(cm.maps, key, CmpDistance_setDistanceAt(entry, id, distance)),
         cached |-> key]

\* CmpDistanceMaps.RevertAll: Reset on the distanceMap of every entry
CmpDistanceMaps_RevertAll(cm) ==
    [cm EXCEPT !.maps = [k \in DOMAIN cm.maps |-> EmptyMap]]

(***************************************************************************)
(* The hook stream of the cmp-distance tracer.  dist.scopes is the         *)
(* interpreter's stack of open frames (address and code of each).  History *)
(* read by the properties only: frames are numbered in the order they are  *)
(* entered, parentOf and status give each frame's parent (0 for the        *)
(* top-level frame) and how it exited, and seen holds                      *)
(* [hash, address, pc, diff, n] for each comparison frame n executed.      *)
(***************************************************************************)
\* number of OnOpcode hooks delivered in one transaction
MaxCmps == 3
\* number of frames entered in one transaction
MaxCmpFrames == 3

NewCmpDistanceTracer(ics) ==
    [cmpDistanceMaps |-> NewCmpDistanceMaps,
     callFrameStates |-> << >>,
     callDepth |-> 0,
     initialContractsSet |-> ics]

CmpDistanceInit ==
    /\ sets = Idle /\ cov = Idle /\ df = Idle /\ bug = Idle /\ acc = Idle
    /\ \E ics \in InitialContractsSets :
        dist = [attached |-> "cmpdistance", phase |-> "idle", ops |-> 0,
                scopes |-> << >>, tracer |-> NewCmpDistanceTracer(ics),
                nframes |-> 0, parentOf |-> << >>, status |-> << >>, seen |-> {},
                last |-> NoHook, result |-> NewCmpDistanceMaps]

CmpDistance_OnTxStart ==
    /\ dist.attached = "cmpdistance"
    /\ dist.phase = "idle"
    /\ dist' = [dist EXCEPT !.phase = "tx", !.ops = 0, !.scopes = << >>,
                            !.result = NewCmpDistanceMaps,
                            !.tracer.callDepth = 0,
                            !.tracer.cmpDistanceMaps = NewCmpDistanceMaps,
                            !.tracer.callFrameStates = << >>,
                            !.nframes = 0, !.parentOf = << >>, !.status = << >>,
                            !.seen = {},
                            !.last = [hook |-> "txstart"]]
    /\ UNCHANGED <<sets, cov, df, bug, acc>>

CmpDistance_OnEnter(typ, to) ==
    /\ dist.attached = "cmpdistance"
    /\ dist.phase = "tx"
    /\ Len(dist.scopes) < MaxDepth
    /\ dist.nframes < MaxCmpFrames
    /\ LET depth == Len(dist.scopes)
           isTopLevelFrame == depth = 0
           create == typ \in {"CREATE", "CREATE2"}
           frame == [initialized |-> FALSE,
                     create |-> create,
                     pendingCmpDistanceMap |-> NewCmpDistanceMaps,
                     lookupHash |-> Nil,
                     address |-> Nil]
       IN  dist' = [dist EXCEPT
                      !.scopes = Append(@, [address |-> to,
                                            code |-> IF create THEN InitCode
                                                     ELSE CodeOf[to],
                                            n |-> dist.nframes + 1]),
                      !.tracer.callDepth = IF isTopLevelFrame THEN @ ELSE @ + 1,
                      !.tracer.callFrameStates = Append(@, frame),
                      !.nframes = @ + 1,
                      !.parentOf = Append(@, IF isTopLevelFrame THEN 0
                                             ELSE dist.scopes[depth].n),
                      !.status = Append(@, "open"),
                      !.last = [hook |-> "enter"]]
    /\ UNCHANGED <<sets, cov, df, bug, acc>>

\* OnOpcode(pc, op, ..., scope, ...); x is Stack.Back(0), y is Stack.Back(1)
CmpDistance_OnOpcode(pc, op, x, y) ==
    /\ dist.attached = "cmpdistance"
    /\ dist.phase = "tx"
    /\ Len(dist.scopes) > 0
    /\ dist.ops < MaxCmps
    /\ LET scope == dist.scopes[Len(dist.scopes)]
           t == dist.tracer
           i == t.callDepth + 1
           f0 == t.callFrameStates[i]
           f1 == IF ~f0.initialized
                 THEN [f0 EXCEPT !.initialized = TRUE, !.address = scope.address]
                 ELSE f0
           diff == IF x > y THEN Sub(x, y) ELSE Sub(y, x)
           lookupHash == IF f1.lookupHash = Nil
                         THEN getContractCoverageMapHash(scope.code, f1.create)
                         ELSE f1.lookupHash
           f2 == [f1 EXCEPT
                    !.lookupHash = lookupHash,
                    !.pendingCmpDistanceMap =
                        CmpDistanceMaps_SetAt(@,
                            addressForCoverage(t.initialContractsSet, f1.address),
                            lookupHash, pc, diff)]
           compares == op \in {"LT", "GT", "EQ", "SLT", "SGT"}
       IN  dist' = [dist EXCEPT
                      !.ops = @ + 1,
                      !.tracer.callFrameStates[i] = IF compares THEN f2 ELSE f1,
                      !.seen = IF compares
                               THEN @ \cup {[hash |-> scope.code, address |-> scope.address,
                                             pc |-> pc, diff |-> diff, n |-> scope.n]}
                               ELSE @,
                      !.last = [hook |-> "op"]]
    /\ UNCHANGED <<sets, cov, df, bug, acc>>

CmpDistance_OnExit(reverted) ==
    /\ dist.attached = "cmpdistance"
    /\ dist.phase = "tx"
    /\ Len(dist.scopes) > 0
    /\ LET depth == Len(dist.scopes) - 1
           t == dist.tracer
           i == t.callDepth + 1
           pending == t.callFrameStates[i].pendingCmpDistanceMap
           currentDistanceMap ==
               IF reverted THEN CmpDistanceMaps_RevertAll(pending) ELSE pending
           frames1 == [t.callFrameStates EXCEPT
                         ![i].pendingCmpDistanceMap = currentDistanceMap]
           n == dist.scopes[depth + 1].n
       IN  IF depth = 0
           THEN dist' = [dist EXCEPT
                           !.scopes = << >>,
                           !.phase = "ended",
                           !.tracer.cmpDistanceMaps =
                               CmpDistanceMaps_Update(@, currentDistanceMap),
                           !.tracer.callFrameStates = frames1,
                           !.status[n] = IF reverted THEN "rev" ELSE "ok",
                           !.last = [hook |-> "exit"]]
           ELSE dist' = [dist EXCEPT
                           !.scopes = SubSeq(@, 1, Len(@) - 1),
                           !.tracer.callFrameStates =
                               SubSeq([frames1 EXCEPT
                                         ![i - 1].pendingCmpDistanceMap =
                                             CmpDistanceMaps_Update(@, currentDistanceMap)],
                                      1, t.callDepth),
                           !.tracer.callDepth = @ - 1,
                           !.status[n] = IF reverted THEN "rev" ELSE "ok",
                           !.last = [hook |-> "exit"]]
    /\ UNCHANGED <<sets, cov, df, bug, acc>>

CmpDistance_CaptureTxEnd ==
    /\ dist.attached = "cmpdistance"
    /\ dist.phase = "ended"
    /\ dist' = [dist EXCEPT !.phase = "idle",
                            !.result = dist.tracer.cmpDistanceMaps,
                            !.last = [hook |-> "txend"]]
    /\ UNCHANGED <<sets, cov, df, bug, acc>>

CmpDistanceNext ==
    \/ CmpDistance_OnTxStart
    \/ \E to \in Addrs : CmpDistance_OnEnter("CALL", to)
    \/ \E pc \in Pcs, in \in {<<0, 1>>, <<WordMod - 1, 0>>} :
          CmpDistance_OnOpcode(pc, "LT", in[1], in[2])
    \/ CmpDistance_OnOpcode(1, "JUMPDEST", 0, 0)
    \/ \E reverted \in BOOLEAN : CmpDistance_OnExit(reverted)
    \/ CmpDistance_CaptureTxEnd

SpecCmpDistance == CmpDistanceInit /\ [][CmpDistanceNext]_vars

RECURSIVE CmpClean(_)
\* frame n and each of its ancestors up to the top-level frame exited
\* with reverted = false
CmpClean(n) ==
    /\ dist.status[n] = "ok"
    /\ dist.parentOf[n] = 0 \/ CmpClean(dist.parentOf[n])

\* the distances seen at <<hash, address>> and pc in frames that were not
\* reverted, the address of a frame being named by keyed(address)
CmpSeen(keyed(_), hash, address, pc) ==
    {o.diff : o \in {s \in dist.seen : /\ s.hash = hash /\ keyed(s.address) = address
                                       /\ s.pc = pc /\ CmpClean(s.n)}}

\* the result holds, for every key, exactly the least distance seen
CmpResultIsLeastSeen(keyed(_)) ==
    \A hash \in {"h0", "h1", "h2"}, address \in Addrs \cup {BLANK_ADDRESS}, pc \in Pcs :
        LET ds == CmpSeen(keyed, hash, address, pc)
            key == <<hash, address>>
            stored == key \in DOMAIN dist.result.maps /\ pc \in DOMAIN dist.result.maps[key]
        IN  IF ds = {} THEN ~stored
            ELSE stored /\ \A d \in ds : dist.result.maps[key][pc] <= d
                        /\ dist.result.maps[key][pc] \in ds

CmpKeyed(address) == addressForCoverage(dist.tracer.initialContractsSet, address)

CmpSelf(address) == address

(***************************************************************************)
(* C15 as amended: in the result of a transaction the distance stored for  *)
(* <<code hash, address, pc>> is the least |x - y| over the comparisons    *)
(* executed at that pc in frames of that code that were not reverted,      *)
(* neither themselves nor through an ancestor, where a frame counts under  *)
(* its own address when no initial-contract set is installed or the        *)
(* address is in the set, and under the blank address otherwise; a key     *)
(* with no such execution is absent.                                       *)
(***************************************************************************)
C15_ResultIsLeastSeenByTracerKey ==
    (dist.attached = "cmpdistance" /\ dist.last.hook = "txend") =>
        CmpResultIsLeastSeen(CmpKeyed)

\* two comparisons with different distances at one key, one in a child
\* frame, both kept, and a third in a frame that was reverted
C15_Witness ==
    /\ dist.attached = "cmpdistance" /\ dist.last.hook = "txend"
    /\ \E a, b, c \in dist.seen :
         /\ a.hash = b.hash /\ a.address = b.address /\ a.pc = b.pc
         /\ a.diff < b.diff /\ a.n # b.n
         /\ CmpClean(a.n) /\ CmpClean(b.n) /\ ~CmpClean(c.n)
         /\ dist.result.maps[<<a.hash, CmpKeyed(a.address)>>][a.pc] = a.diff

(***************************************************************************)
(* C15: in the result of a transaction the distance stored for             *)
(* <<code hash, address, pc>> is the least |x - y| over the comparisons    *)
(* executed at that pc in frames at that address that were not reverted;   *)
(* a key with no such execution is absent.                                 *)
(***************************************************************************)
C15_ResultIsLeastSeenByAddress ==
    (dist.attached = "cmpdistance" /\ dist.last.hook = "txend") =>
        CmpResultIsLeastSeen(CmpSelf)

(***************************************************************************)
(* codecoverage: CoverageMapBytecodeData, CoverageMaps.  The entry of a    *)
(* <<code hash, address>> is its executedFlags, one byte per byte of code  *)
(* (NilFlags for a nil slice).                                             *)
(***************************************************************************)
CodeCoverage_update_Adopt(flags, other) == IF other = NilFlags THEN flags ELSE other

\* CoverageMapBytecodeData.update
CodeCoverage_update(flags, other) ==
    IF other = NilFlags THEN flags
    ELSE IF flags = NilFlags THEN other
    ELSE [i \in 1..Len(flags) |->
             IF i <= Len(other) /\ flags[i] = 0 /\ other[i] # 0 THEN 1 ELSE flags[i]]

\* CoverageMapBytecodeData.setCoveredAt
CodeCoverage_setCoveredAt(flags, codeSize, pc) ==
    LET f == IF flags = NilFlags THEN [i \in 1..codeSize |-> 0] ELSE flags
    IN  IF pc < Len(f) /\ f[pc + 1] = 0 THEN [f EXCEPT ![pc + 1] = 1] ELSE f

\* CoverageMaps.Update of codecoverage
CodeCoverageMaps_Update(cm, coverageMaps) ==
    [cm EXCEPT !.maps =
        [k \in (DOMAIN cm.maps) \cup (DOMAIN coverageMaps.maps) |->
            IF k \in DOMAIN cm.maps
            THEN IF k \in DOMAIN coverageMaps.maps
                 THEN CodeCoverage_update(cm.maps[k], coverageMaps.maps[k])
                 ELSE cm.maps[k]
            ELSE coverageMaps.maps[k]]]

\* CoverageMaps.SetAt of codecoverage
CodeCoverageMaps_SetAt(cm, codeAddress, codeLookupHash, codeSize, pc) ==
    IF codeSize = 0 THEN cm
    ELSE LET key == <<codeLookupHash, codeAddress>>
             flags == IF key \in DOMAIN cm.maps THEN cm.maps[key] ELSE NilFlags
         IN  [maps |-> Put(cm.maps, key, CodeCoverage_setCoveredAt(flags, codeSize, pc)),
              cached |-> key]

(***************************************************************************)
(* An accumulating map of the fuzzer on its own: a code-coverage,          *)
(* branch-coverage, cmp-distance or branch-distance map that starts empty  *)
(* and is changed by Update, with the result of a transaction, and by      *)
(* SetAt only.  The results are the maps a tracer can hand over for the    *)
(* code h2 (two bytes long, one JUMPI, two branch ids) at c1, at c2 or at  *)
(* both: the flags or distances of a frame, or what RevertAll leaves of    *)
(* them.  History: acc.ones holds <<key, i>> for every flag seen at 1,     *)
(* acc.low the least distance stored so far for every <<key, id>>.         *)
(***************************************************************************)
MapKinds == {"codecoverage", "branchcoverage", "cmpdistance", "branchdistance"}

\* number of Update and SetAt calls on the accumulator
MaxCalls == 3

AccKeys == {<<"h2", a>> : a \in Addrs}

AccSize == BranchMap_Size("h2")

AccDistances == {0, WordMod - 2}

\* the entries a result can hold under one key
AccEntries(kind) ==
    IF kind \in {"codecoverage", "branchcoverage"}
    THEN {NilFlags} \cup {f \in [1..AccSize -> {0, 1}] : \E i \in 1..AccSize : f[i] = 1}
    ELSE IF kind = "cmpdistance"
    THEN UNION {[ids -> AccDistances] : ids \in SUBSET (0..(AccSize - 1))}
    ELSE {NewContractBranchDistanceMap} \cup
         UNION {{[executedFlags |-> [i \in 1..AccSize |-> IF (i - 1) \in ids THEN 1 ELSE 0],
                  distance |-> d] : d \in [ids -> AccDistances]} :
                ids \in (SUBSET (0..(AccSize - 1))) \ {{}}}

AccResults(kind) ==
    {[maps |-> [k \in keys |-> e], cached |-> NoKey] :
        keys \in SUBSET AccKeys, e \in AccEntries(kind)}

AccNew(kind) ==
    IF kind \in {"codecoverage", "branchcoverage"} THEN NewCoverageMaps
    ELSE IF kind = "cmpdistance" THEN NewCmpDistanceMaps
    ELSE NewBranchDistanceMaps

AccUpdate(kind, g, r) ==
    IF kind = "codecoverage" THEN CodeCoverageMaps_Update(g, r)
    ELSE IF kind = "branchcoverage" THEN Cov_Update(g, r)
    ELSE IF kind = "cmpdistance" THEN CmpDistanceMaps_Update(g, r)
    ELSE BranchDistanceMaps_Update(g, r)

AccSetAt(kind, g, address, id, distance) ==
    IF kind = "codecoverage" THEN CodeCoverageMaps_SetAt(g, address, "h2", AccSize, id)
    ELSE IF kind = "branchcoverage" THEN Cov_SetAt(g, address, "h2", AccSize, id)
    ELSE IF kind = "cmpdistance" THEN CmpDistanceMaps_SetAt(g, address, "h2", id, distance)
    ELSE BranchDistanceMaps_SetAt(g, address, "h2", AccSize, id, distance)

\* <<key, i>> of the flags that are 1 in a coverage map
AccOnes(g) ==
    {<<k, i>> : k \in DOMAIN g.maps, i \in 1..AccSize} \cap
    {<<k, i>> \in AccKeys \X (1..AccSize) :
        k \in DOMAIN g.maps /\ i \in DOMAIN g.maps[k] /\ g.maps[k][i] = 1}

\* the distance map of a key of a distance map
AccDistanceOf(kind, g, k) ==
    IF k \notin DOMAIN g.maps THEN EmptyMap
    ELSE IF kind = "cmpdistance" THEN g.maps[k] ELSE g.maps[k].distance

AccLow(kind, low, g) ==
    LET now == {<<k, id>> \in AccKeys \X (0..AccSize) : id \in DOMAIN AccDistanceOf(kind, g, k)}
    IN  [p \in (DOMAIN low) \cup now |->
            IF p \in now
            THEN IF p \in DOMAIN low
                 THEN Min(low[p], AccDistanceOf(kind, g, p[1])[p[2]])
                 ELSE AccDistanceOf(kind, g, p[1])[p[2]]
            ELSE low[p]]

\* the boolean CoverageMaps.Update of codecoverage returns: an entry the
\* receiver lacks assigns successfulCoverage != nil, true of every entry;
\* an entry it has ors in what CoverageMapBytecodeData.update returns
CodeCoverageMaps_UpdateChanged(cm, coverageMaps) ==
    LET update(flags, other) ==
            IF other = NilFlags THEN FALSE
            ELSE IF flags = NilFlags THEN TRUE
            ELSE \E i \in 1..Min(Len(flags), Len(other)) : flags[i] = 0 /\ other[i] # 0
    IN  \E k \in DOMAIN coverageMaps.maps :
            \/ k \notin DOMAIN cm.maps
            \/ k \in DOMAIN cm.maps /\ update(cm.maps[k], coverageMaps.maps[k])

\* the boolean CoverageMaps.Update of branchcoverage returns
Cov_UpdateChanged(cm, coverageMaps) ==
    \E k \in DOMAIN coverageMaps.maps :
        \/ k \notin DOMAIN cm.maps
        \/ k \in DOMAIN cm.maps /\ BranchData_update(cm.maps[k], coverageMaps.maps[k])[2]

\* the boolean CmpDistanceMaps.Update returns: an entry the receiver lacks
\* assigns distanceMap != nil; DistanceMapBranchData.update sets changed
\* where a stored distance is greater, not where an id is new
CmpDistanceMaps_UpdateChanged(cm, coverageMaps) ==
    LET update(d, other) ==
            \E id \in DOMAIN other : id \in DOMAIN d /\ d[id] > other[id]
    IN  \E k \in DOMAIN coverageMaps.maps :
            \/ k \notin DOMAIN cm.maps
            \/ k \in DOMAIN cm.maps /\ update(cm.maps[k], coverageMaps.maps[k])

\* the boolean BranchDistanceMaps.Update returns
BranchDistanceMaps_UpdateChanged(cm, coverageMaps) ==
    LET update(d, other) ==
            IF other.executedFlags = NilFlags THEN FALSE
            ELSE IF d.executedFlags = NilFlags THEN TRUE
            ELSE \E i \in 0..(Min(Len(d.executedFlags), Len(other.executedFlags)) - 1) :
                    \/ d.executedFlags[i + 1] = 0 /\ other.executedFlags[i + 1] # 0
                    \/ /\ d.executedFlags[i + 1] = 1 /\ other.executedFlags[i + 1] = 1
                       /\ d.distance[i] > other.distance[i]
    IN  \E k \in DOMAIN coverageMaps.maps :
            \/ k \notin DOMAIN cm.maps
            \/ k \in DOMAIN cm.maps /\ update(cm.maps[k], coverageMaps.maps[k])

AccUpdateChanged(kind, g, r) ==
    IF kind = "codecoverage" THEN CodeCoverageMaps_UpdateChanged(g, r)
    ELSE IF kind = "branchcoverage" THEN Cov_UpdateChanged(g, r)
    ELSE IF kind = "cmpdistance" THEN CmpDistanceMaps_UpdateChanged(g, r)
    ELSE BranchDistanceMaps_UpdateChanged(g, r)

AccumulatorInit ==
    /\ sets = Idle /\ cov = Idle /\ df = Idle /\ bug = Idle /\ dist = Idle
    /\ \E kind \in MapKinds :
         acc = [attached |-> "accumulator", kind |-> kind, g |-> AccNew(kind),
                calls |-> 0, ones |-> {}, low |-> EmptyMap, last |-> NoHook]

Accumulator_Step(g, hook, returned) ==
    acc' = [acc EXCEPT
              !.g = g,
              !.calls = @ + 1,
              !.ones = IF acc.kind \in {"codecoverage", "branchcoverage"}
                       THEN @ \cup AccOnes(g) ELSE @,
              !.low = IF acc.kind \in {"cmpdistance", "branchdistance"}
                      THEN AccLow(acc.kind, @, g) ELSE @,
              !.last = [hook |-> hook, before |-> acc.g, returned |-> returned]]

Accumulator_Update(r) ==
    /\ acc.attached = "accumulator"
    /\ acc.calls < MaxCalls
    /\ r \in AccResults(acc.kind)
    /\ Accumulator_Step(AccUpdate(acc.kind, acc.g, r), "update",
                         AccUpdateChanged(acc.kind, acc.g, r))
    /\ UNCHANGED <<sets, cov, df, bug, dist>>

Accumulator_SetAt(address, id, distance) ==
    /\ acc.attached = "accumulator"
    /\ acc.calls < MaxCalls
    /\ Accumulator_Step(AccSetAt(acc.kind, acc.g, address, id, distance), "setat",
                         FALSE)
    /\ UNCHANGED <<sets, cov, df, bug, dist>>

AccumulatorNext ==
    \/ \E r \in AccResults(acc.kind) : Accumulator_Update(r)
    \/ \E address \in Addrs, id \in 0..AccSize, distance \in {1, WordMod - 1} :
          Accumulator_SetAt(address, id, distance)

SpecAccumulator == AccumulatorInit /\ [][AccumulatorNext]_vars

(***************************************************************************)
(* C16: in an accumulating cmp-distance or branch-distance map, changed by *)
(* SetAt and Update only, the distance stored for an id never increases    *)
(* and an id once present never disappears.                                *)
(***************************************************************************)
C16_DistanceNeverIncreases ==
    (acc.attached = "accumulator" /\ acc.kind \in {"cmpdistance", "branchdistance"}) =>
        \A p \in DOMAIN acc.low :
            /\ p[2] \in DOMAIN AccDistanceOf(acc.kind, acc.g, p[1])
            /\ AccDistanceOf(acc.kind, acc.g, p[1])[p[2]] <= acc.low[p]

\* a stored distance met a larger one and a smaller one, by Update and by
\* SetAt, and holds the smallest
C16_Witness ==
    /\ acc.attached = "accumulator" /\ acc.kind \in {"cmpdistance", "branchdistance"}
    /\ acc.calls = MaxCalls
    /\ acc.last.hook = "update"
    /\ \E p \in DOMAIN acc.low :
         /\ p[2] \in DOMAIN AccDistanceOf(acc.kind, acc.last.before, p[1])
         /\ AccDistanceOf(acc.kind, acc.last.before, p[1])[p[2]] = 1
         /\ AccDistanceOf(acc.kind, acc.g, p[1])[p[2]] = 0

(***************************************************************************)
(* C17: in a process-global code-coverage or branch-coverage map a         *)
(* coverage byte that is 1 stays 1 under every later sequence of Update    *)
(* and SetAt calls, whatever the results merged (those of reverted         *)
(* transactions included).                                                 *)
(***************************************************************************)
C17_CoveredStaysCovered ==
    (acc.attached = "accumulator" /\ acc.kind \in {"codecoverage", "branchcoverage"}) =>
        acc.ones \subseteq AccOnes(acc.g)

\* a byte that was 1 went through an Update with a result that holds 0, or
\* nil flags, for it and through a SetAt
C17_Witness ==
    /\ acc.attached = "accumulator" /\ acc.kind \in {"codecoverage", "branchcoverage"}
    /\ acc.calls = MaxCalls
    /\ acc.last.hook = "update"
    /\ \E p \in AccOnes(acc.last.before) :
         /\ p \in AccOnes(acc.g)
         /\ AccOnes(acc.g) # AccOnes(acc.last.before)

(***************************************************************************)
(* Merging the results of transactions: a collection of results of one     *)
(* accumulator type is merged with Update into an empty accumulator in the *)
(* order collected (acc.left) and in another order (acc.right).  The       *)
(* results of the sets are what SetWrite, SetTokenFlow and the dataflow    *)
(* tracer build from an empty set in one transaction.                      *)
(***************************************************************************)
SetKinds == {"dataflow", "storagewrite", "tokenflow"}

\* number of results merged
MaxResults == 3

MergeResults(kind) ==
    IF kind \in MapKinds THEN AccResults(kind)
    ELSE IF kind = "dataflow"
    THEN {[NewDataflowSet EXCEPT !.set = s] :
             s \in SUBSET {DF_Key(DF_Position("c1", FALSE, pc), DF_StorageSlot("c1", "s1"),
                                  DF_Position("c1", FALSE, 2)) : pc \in Pcs}}
    ELSE IF kind = "storagewrite"
    THEN {NewStorageWriteSet} \cup
         {SW_SetWrite(NewStorageWriteSet, "c1", "s1", value, "c1", FALSE, 1) :
             value \in {slice0 - 1, slice0, slice0 + 1}}
    ELSE {NewTokenflowSet} \cup
         {TF_SetTokenFlow(NewTokenflowSet, "c1", FALSE, 1, amount, "c1", to, "c2") :
             amount \in {1, 2}, to \in Addrs}

MergeNew(kind) ==
    IF kind \in MapKinds THEN AccNew(kind)
    ELSE IF kind = "dataflow" THEN NewDataflowSet
    ELSE IF kind = "storagewrite" THEN NewStorageWriteSet
    ELSE NewTokenflowSet

MergeUpdate(kind, g, r) ==
    IF kind \in MapKinds THEN AccUpdate(kind, g, r)
    ELSE IF kind = "dataflow" THEN DF_Update(g, r)
    ELSE IF kind = "storagewrite" THEN SW_Update(g, r)
    ELSE TF_Update(g, r)

\* keys and stored values of an accumulator
MergeContents(kind, g) ==
    IF kind \in MapKinds THEN g.maps
    ELSE IF kind = "dataflow" THEN g.set
    ELSE g

RECURSIVE MergeAll(_, _, _, _)
\* the accumulator after Update with rs[order[1]], ..., rs[order[n]]
MergeAll(kind, rs, order, n) ==
    IF n = 0 THEN MergeNew(kind)
    ELSE MergeUpdate(kind, MergeAll(kind, rs, order, n - 1), rs[order[n]])

Orders(n) == {p \in [1..n -> 1..n] : \A i, j \in 1..n : p[i] = p[j] => i = j}

MergeInit ==
    /\ sets = Idle /\ cov = Idle /\ df = Idle /\ bug = Idle /\ dist = Idle
    /\ \E kind \in MapKinds \cup SetKinds :
         acc = [attached |-> "merge", kind |-> kind, rs |-> << >>, merged |-> FALSE,
                left |-> MergeContents(kind, MergeNew(kind)),
                right |-> MergeContents(kind, MergeNew(kind))]

Merge_Collect(r) ==
    /\ acc.attached = "merge"
    /\ ~acc.merged
    /\ Len(acc.rs) < MaxResults
    /\ r \in MergeResults(acc.kind)
    /\ acc' = [acc EXCEPT !.rs = Append(@, r)]
    /\ UNCHANGED <<sets, cov, df, bug, dist>>

Merge_Merge(order) ==
    /\ acc.attached = "merge"
    /\ ~acc.merged
    /\ Len(acc.rs) > 1
    /\ order \in Orders(Len(acc.rs))
    /\ acc' = [acc EXCEPT
                 !.merged = TRUE,
                 !.left = MergeContents(acc.kind,
                              MergeAll(acc.kind, acc.rs, [i \in 1..Len(acc.rs) |-> i], Len(acc.rs))),
                 !.right = MergeContents(acc.kind,
                              MergeAll(acc.kind, acc.rs, order, Len(acc.rs)))]
    /\ UNCHANGED <<sets, cov, df, bug, dist>>

MergeNext ==
    \/ \E r \in MergeResults(acc.kind) : Merge_Collect(r)
    \/ \E order \in Orders(Len(acc.rs)) : Merge_Merge(order)

SpecMerge == MergeInit /\ [][MergeNext]_vars

(***************************************************************************)
(* C18: for each accumulator type (code and branch coverage maps, cmp and  *)
(* branch distance maps, dataflow set, storage-write set, token-flow set), *)
(* merging the same results into an empty accumulator with Update in any   *)
(* two orders yields accumulators with identical contents.                 *)
(***************************************************************************)
C18_MergeOrderIndependent ==
    (acc.attached = "merge" /\ acc.merged) => acc.left = acc.right

(***************************************************************************)
(* bugdetector: BugMap with the time of each id.  bugMap maps an id to     *)
(* the string of the time elapsed since StartTimeForBugDetector when the   *)
(* id was first covered, rounded to microseconds.  acc.now is that elapsed *)
(* time in microseconds; a map merged in with Update was filled by         *)
(* CoverBug too, at times up to now.                                       *)
(***************************************************************************)
\* microseconds of the clock
MaxClock == 3

\* Duration.String() of d microseconds, d below a millisecond
DurationString(d) == IF d = 0 THEN <<0, "s">> ELSE <<d, "µs">>

\* the time a string of DurationString stands for
DurationOf(s) == s[1]

BugMap_CoverBug_Restamp(ds, bugId, now) ==
    [bugMap |-> Put(ds, bugId, DurationString(now)), covered |-> ~Has(ds, bugId)]

\* BugMap.CoverBug: the map afterwards and the boolean returned
BugMap_CoverBug(ds, bugId, now) ==
    IF Has(ds, bugId) THEN [bugMap |-> ds, covered |-> FALSE]
    ELSE [bugMap |-> Put(ds, bugId, DurationString(now)), covered |-> TRUE]

\* BugMap.Update
BugMap_Update(ds, bugMap) ==
    [id \in (DOMAIN ds) \cup (DOMAIN bugMap) |->
        IF id \in DOMAIN ds THEN ds[id] ELSE bugMap[id]]

BugIds == {BugId(OVERFLOW_ID, "c1", pc, "ADD") : pc \in Pcs}

\* the maps CoverBug can have filled by the time now
BugMapsUpTo(now) ==
    UNION {[ids -> {DurationString(d) : d \in 0..now}] : ids \in SUBSET BugIds}

BugMapInit ==
    /\ sets = Idle /\ cov = Idle /\ df = Idle /\ bug = Idle /\ dist = Idle
    /\ acc = [attached |-> "bugmap", ds |-> EmptyMap, now |-> 0, last |-> NoHook]

BugMap_Tick ==
    /\ acc.attached = "bugmap"
    /\ acc.now < MaxClock
    /\ acc' = [acc EXCEPT !.now = @ + 1]
    /\ UNCHANGED <<sets, cov, df, bug, dist>>

BugMap_DoCoverBug(bugId) ==
    /\ acc.attached = "bugmap"
    /\ LET r == BugMap_CoverBug(acc.ds, bugId, acc.now)
       IN  acc' = [acc EXCEPT
                     !.ds = r.bugMap,
                     !.last = [hook |-> "cover", bugId |-> bugId, before |-> acc.ds,
                               other |-> EmptyMap, covered |-> r.covered]]
    /\ UNCHANGED <<sets, cov, df, bug, dist>>

BugMap_DoUpdate(bugMap) ==
    /\ acc.attached = "bugmap"
    /\ bugMap \in BugMapsUpTo(acc.now)
    /\ acc' = [acc EXCEPT
                 !.ds = BugMap_Update(acc.ds, bugMap),
                 !.last = [hook |-> "update", bugId |-> BugId(OVERFLOW_ID, "c1", 1, "ADD"),
                           before |-> acc.ds, other |-> bugMap, covered |-> FALSE]]
    /\ UNCHANGED <<sets, cov, df, bug, dist>>

BugMapNext ==
    \/ BugMap_Tick
    \/ \E bugId \in BugIds : BugMap_DoCoverBug(bugId)
    \/ \E bugMap \in BugMapsUpTo(MaxClock) : BugMap_DoUpdate(bugMap)

SpecBugMap == BugMapInit /\ [][BugMapNext]_vars

(***************************************************************************)
(* C19: CoverBug is idempotent: a call of CoverBug(id) on a map that holds *)
(* id already leaves the ids and their first-seen times as they were and   *)
(* returns false; the call on a fresh id returns true and records id.      *)
(***************************************************************************)
C19_CoverBugIsIdempotent ==
    (acc.attached = "bugmap" /\ acc.last.hook = "cover") =>
        IF Has(acc.last.before, acc.last.bugId)
        THEN acc.ds = acc.last.before /\ ~acc.last.covered
        ELSE /\ acc.last.covered
             /\ Has(acc.ds, acc.last.bugId)
             /\ \A id \in DOMAIN acc.last.before :
                   Has(acc.ds, id) /\ acc.ds[id] = acc.last.before[id]
             /\ BugMap_CoverBug(acc.ds, acc.last.bugId, MaxClock).bugMap = acc.ds

\* CoverBug was called again for an id covered at an earlier time
C19_Witness ==
    /\ acc.attached = "bugmap" /\ acc.last.hook = "cover"
    /\ Has(acc.last.before, acc.last.bugId)
    /\ DurationOf(acc.last.before[acc.last.bugId]) < acc.now
    /\ ~acc.last.covered

(***************************************************************************)
(* C20: Update(other) yields the union of the ids, and for an id present   *)
(* in both maps the receiver afterwards holds the earlier of the two       *)
(* first-seen times.                                                       *)
(***************************************************************************)
C20_UpdateKeepsEarliest ==
    (acc.attached = "bugmap" /\ acc.last.hook = "update") =>
        /\ DOMAIN acc.ds = (DOMAIN acc.last.before) \cup (DOMAIN acc.last.other)
        /\ \A id \in (DOMAIN acc.last.before) \cap (DOMAIN acc.last.other) :
              DurationOf(acc.ds[id]) =
                  Min(DurationOf(acc.last.before[id]), DurationOf(acc.last.other[id]))

(***************************************************************************)
(* The frame stacks of the tracers against the interpreter's depth: the    *)
(* hook stream of a set tracer or of the bug detector, whichever is        *)
(* attached.                                                               *)
(***************************************************************************)
FramesInit == SetsInit \/ BugInit

FramesNext == SetsNext \/ BugNext

SpecFrames == FramesInit /\ [][FramesNext]_vars

\* while a frame is open, callDepth and the frame stack follow the
\* interpreter's depth, and the bug detector's frames are those of the open
\* frames in order
FramesAligned ==
    /\ (sets.attached \in SetsTracerKinds /\ sets.depth >= 0) =>
          /\ sets.tracer.callDepth = sets.depth
          /\ Len(sets.tracer.callFrameStates) = sets.depth + 1
    /\ (bug.attached = "bug" /\ ~bug.panicked /\ bug.scopes # << >>) =>
          /\ bug.t.callDepth = Len(bug.scopes) - 1
          /\ Len(bug.t.callFrameStates) = Len(bug.scopes)
          /\ \A k \in 1..Len(bug.scopes) :
                /\ bug.t.callFrameStates[k].from = bug.scopes[k].from
                /\ bug.t.callFrameStates[k].codeAddress = bug.scopes[k].address

\* the number of frame states right after the OnExit of a frame of depth d
FramesAfterExit(n(_)) ==
    /\ (sets.attached \in SetsTracerKinds /\ sets.last.hook = "exit") =>
          Len(sets.tracer.callFrameStates) = n(sets.last.depth)
    /\ (bug.attached = "bug" /\ bug.last.hook = "exit") =>
          Len(bug.t.callFrameStates) = n(bug.last.depth)

KeepTopLevel(d) == IF d = 0 THEN 1 ELSE d

PopEvery(d) == d

(***************************************************************************)
(* C21 (as amended): whenever a frame is open, callDepth ==                *)
(* len(callFrameStates) - 1 == the interpreter depth of the innermost open *)
(* frame, and the OnExit of a sub-frame removes exactly the state of that  *)
(* frame; the OnExit of the top-level frame removes nothing, its state     *)
(* stays in callFrameStates until the next OnTxStart.                      *)
(***************************************************************************)
C21_FramesFollowDepth == FramesAligned /\ FramesAfterExit(KeepTopLevel)

\* a sub-frame of a sub-frame has exited and its parent is the innermost frame
C21_Witness ==
    \/ /\ sets.attached \in SetsTracerKinds /\ sets.last.hook = "exit"
       /\ sets.last.depth = 2 /\ sets.depth = 1
       /\ Len(sets.tracer.callFrameStates) = 2
    \/ /\ bug.attached = "bug" /\ bug.last.hook = "exit"
       /\ bug.last.depth = 2 /\ Len(bug.scopes) = 2
       /\ Len(bug.t.callFrameStates) = 2

(***************************************************************************)
(* C21 (as stated): frame stack alignment, and OnExit removes exactly the  *)
(* state of the innermost open frame, whatever its depth.                  *)
(***************************************************************************)
C21_ExitRemovesInnermostFrame == FramesAligned /\ FramesAfterExit(PopEvery)

(***************************************************************************)
(* The taint analyzer of one frame on its own.  PropagateTaint and the     *)
(* taint part of OnOpcode are functions of the analyzer, the opcode and    *)
(* the offset operand: they are applied to analyzers drawn from bounded    *)
(* sets.  A run is either one call on an analyzer with labels on up to two *)
(* of the indices 0..8 or on the indices 0, 1 and 2, or up to MaxTaintCalls*)
(* calls on an analyzer with labels on the indices 1 and 2 only (the value *)
(* operand of a store and the slot below it).  The labels are an           *)
(* opcode-site label, as detect_reentrancy adds for an SLOAD, and a string *)
(* label.  History: acc.last holds the opcode, the offset and the analyzer *)
(* before the call, acc.stored the offset and the labels of the value of   *)
(* the most recent MSTORE, as long as no other store followed.             *)
(***************************************************************************)
MaxTaintCalls == 3

MaxTaintIndex == 8

SiteLabel == TaintId("SLOAD", 1)

StringLabel == TaintId(BLOCK_DEPENDENCY_ID, 0)

LabelSets == {{SiteLabel}, {StringLabel}, {SiteLabel, StringLabel}}

TaintStacksOn(indexSets) == UNION {[ids -> LabelSets] : ids \in indexSets}

WideTaintStacks ==
    TaintStacksOn({ids \in SUBSET (0..MaxTaintIndex) : Cardinality(ids) <= 2} \cup {{0, 1, 2}})

NarrowTaintStacks ==
    UNION {[ids -> {{SiteLabel}, {StringLabel}}] : ids \in SUBSET {1, 2}}

\* pops and pushes of the interpreter's operation table
StackEffect(op) ==
    IF op \in PushOps \ {"BLOCKHASH"} THEN <<0, 1>>
    ELSE IF op \in KeepOps \cup {"MLOAD", "BLOCKHASH"} THEN <<1, 1>>
    ELSE IF op \in BinaryOps THEN <<2, 1>>
    ELSE IF op \in {"ADDMOD", "MULMOD"} THEN <<3, 1>>
    ELSE IF op \in {"POP", "JUMP"} THEN <<1, 0>>
    ELSE IF op \in {"MSTORE", "MSTORE8", "SSTORE", "JUMPI", "RETURN", "REVERT"} THEN <<2, 0>>
    ELSE IF op \in {"CODECOPY", "CALLDATACOPY", "RETURNDATACOPY"} THEN <<3, 0>>
    ELSE IF op = "EXTCODECOPY" THEN <<4, 0>>
    ELSE IF op \in DOMAIN DupN THEN <<DupN[op], DupN[op] + 1>>
    ELSE IF op \in DOMAIN SwapN THEN <<SwapN[op] + 1, SwapN[op] + 1>>
    ELSE IF op \in DOMAIN LogN THEN <<LogN[op] + 2, 0>>
    ELSE IF op = "CREATE" THEN <<3, 1>>
    ELSE IF op = "CREATE2" THEN <<4, 1>>
    ELSE IF op \in {"CALL", "CALLCODE"} THEN <<7, 1>>
    ELSE IF op \in {"DELEGATECALL", "STATICCALL"} THEN <<6, 1>>
    ELSE <<0, 0>>

\* the opcodes applied: one or two of each case of PropagateTaint
TaintOps ==
    {"PUSH", "GAS", "BLOCKHASH", "MLOAD", "SLOAD", "ISZERO", "ADD", "LT", "ADDMOD",
     "POP", "MSTORE", "MSTORE8", "SSTORE", "JUMPI", "CALLDATACOPY", "EXTCODECOPY",
     "DUP1", "DUP2", "SWAP1", "SWAP2", "LOG1", "CREATE", "CREATE2", "CALL",
     "DELEGATECALL", "JUMPDEST"}

MemoryOps == {"MLOAD", "MSTORE", "MSTORE8"}

TaintOffsets == {0, 16, 32}

\* the opcodes after which a detector adds a source label
SourceOps == {"TIMESTAMP", "NUMBER", "CALLVALUE", "CALLER"}

\* the label the detectors add for a source opcode
SourceLabel(op) ==
    IF op \in {"TIMESTAMP", "NUMBER"} THEN TaintId(BLOCK_DEPENDENCY_ID, 0) ELSE TaintId(op, 0)

\* the bug detector, every oracle enabled, inside the top-level frame of a
\* transaction from the sender A to V, with the analyzer ta
TaintFrame(ta) ==
    LET t == Tracer_OnEnter(Tracer_OnTxStart(attachBugDetector(BugConfig(TRUE, TRUE, TRUE))),
                            0, "CALL", "A", "V")
    IN  [t EXCEPT !.callFrameStates[1].taintAnalyzer = ta]

TaintInit ==
    /\ sets = Idle /\ cov = Idle /\ df = Idle /\ bug = Idle /\ dist = Idle
    /\ \E run \in {<<1, ts>> : ts \in WideTaintStacks} \cup
                  {<<MaxTaintCalls, ts>> : ts \in NarrowTaintStacks} :
         acc = [attached |-> "taint", budget |-> run[1],
                ta |-> [NewTaintAnalyzer EXCEPT !.taintStacks = run[2]],
                stored |-> [offset |-> -1, labels |-> {}],
                last |-> [hook |-> "none", op |-> "", offset |-> 0, before |-> NewTaintAnalyzer]]

Taint_Step(hook, op, offset, ta) ==
    acc' = [acc EXCEPT
              !.budget = @ - 1,
              !.ta = ta,
              !.stored = IF hook = "propagate" /\ op = "MSTORE"
                         THEN [offset |-> offset, labels |-> Get(acc.ta.taintStacks, 1)]
                         ELSE IF hook = "propagate" /\ op = "MSTORE8"
                         THEN [offset |-> -1, labels |-> {}]
                         ELSE @,
              !.last = [hook |-> hook, op |-> op, offset |-> offset, before |-> acc.ta]]

\* TaintAnalyzer.PropagateTaint(op, scope) with scope.Stack.Back(0) = offset
Taint_PropagateTaint(op, offset) ==
    /\ acc.attached = "taint"
    /\ acc.budget > 0
    /\ op \in MemoryOps \/ offset = 0
    /\ Taint_Step("propagate", op, offset, PropagateTaint(acc.ta, op, offset))
    /\ UNCHANGED <<sets, cov, df, bug, dist>>

\* BugDetectorTracer.OnOpcode at a source opcode
Taint_OnOpcode(pc, op) ==
    /\ acc.attached = "taint"
    /\ acc.budget > 0
    /\ LET x == [address |-> "V", a |-> 0, b |-> 0, key |-> "s1", gas |-> GasStipend,
                 to |-> "V"]
           t == Tracer_OnOpcode(TaintFrame(acc.ta), pc, op, x)
       IN  Taint_Step("opcode", op, 0, t.callFrameStates[1].taintAnalyzer)
    /\ UNCHANGED <<sets, cov, df, bug, dist>>

TaintNext ==
    \/ \E op \in TaintOps, offset \in TaintOffsets : Taint_PropagateTaint(op, offset)
    \/ \E op \in SourceOps : Taint_OnOpcode(1, op)

SpecTaint == TaintInit /\ [][TaintNext]_vars

(***************************************************************************)
(* C22: for every opcode that pops k and pushes m stack items,             *)
(* PropagateTaint moves the label set of every slot the opcode does not    *)
(* consume (index i >= k before) to index i - k + m, CREATE2, BLOCKHASH,   *)
(* CALL and DELEGATECALL included.                                         *)
(***************************************************************************)
C22_LabelsStayOnTheirSlot ==
    (acc.attached = "taint" /\ acc.last.hook = "propagate") =>
        LET k == StackEffect(acc.last.op)[1]
            m == StackEffect(acc.last.op)[2]
        IN  \A i \in k..(MaxTaintIndex + 2) :
                Get(acc.ta.taintStacks, i - k + m) = Get(acc.last.before.taintStacks, i)

(***************************************************************************)
(* C25: after the bug detector has processed a block-dependency source     *)
(* opcode or an unsafe-delegatecall stack source opcode, the source label  *)
(* is on the shadow slot of the value the opcode pushed (index 0) and on   *)
(* no slot that did not carry it before (the slot of index i >= 1 was at   *)
(* index i - 1 before the push).                                           *)
(***************************************************************************)
C25_SourceLabelOnPushedValue ==
    (acc.attached = "taint" /\ acc.last.hook = "opcode") =>
        /\ SourceLabel(acc.last.op) \in Get(acc.ta.taintStacks, 0)
        /\ \A i \in 1..(MaxTaintIndex + 2) :
              SourceLabel(acc.last.op) \in Get(acc.ta.taintStacks, i) =>
                  SourceLabel(acc.last.op) \in Get(acc.last.before.taintStacks, i - 1)

\* the ids of the tainted memory regions that overlap [start, end)
OverlappingLabels(ta, start, end) ==
    {id \in DOMAIN ta.taintMemory :
        ta.taintMemory[id].start < end /\ start < ta.taintMemory[id].end}

(***************************************************************************)
(* C26: after PropagateTaint for MLOAD(off) the label set at index 0 is    *)
(* exactly the set of labels of the tainted memory regions that overlap    *)
(* [off, off + 32); the labels of the offset operand are gone and every    *)
(* other index is unchanged.                                               *)
(***************************************************************************)
C26_LoadTakesLabelsOfMemory ==
    (acc.attached = "taint" /\ acc.last.hook = "propagate" /\ acc.last.op = "MLOAD") =>
        /\ Get(acc.ta.taintStacks, 0) =
               OverlappingLabels(acc.last.before, acc.last.offset, acc.last.offset + 32)
        /\ \A i \in 1..(MaxTaintIndex + 2) :
              Get(acc.ta.taintStacks, i) = Get(acc.last.before.taintStacks, i)

(***************************************************************************)
(* C27: a value carrying a label L, written by MSTORE to an offset and     *)
(* read back by MLOAD from that offset in the same frame with no other     *)
(* store in between, is reported tainted by L at index 0.                  *)
(***************************************************************************)
C27_MemoryRoundTripKeepsLabel ==
    (/\ acc.attached = "taint" /\ acc.last.hook = "propagate" /\ acc.last.op = "MLOAD"
     /\ acc.stored.offset = acc.last.offset) =>
        \A id \in acc.stored.labels : IsTaintedById(acc.ta, id, 0)

(***************************************************************************)
(* C28: after PropagateTaint for a two-operand opcode the label set of the *)
(* result (index 0) is the union of the label sets of both operands, for   *)
(* ADDMOD and MULMOD of all three operands: no label of an operand is lost *)
(* and no label of another slot is added.                                  *)
(***************************************************************************)
C28_ResultHoldsUnionOfOperands ==
    (acc.attached = "taint" /\ acc.last.hook = "propagate") =>
        LET before == acc.last.before.taintStacks
        IN  /\ acc.last.op \in BinaryOps =>
                  Get(acc.ta.taintStacks, 0) = Get(before, 0) \cup Get(before, 1)
            /\ acc.last.op \in {"ADDMOD", "MULMOD"} =>
                  Get(acc.ta.taintStacks, 0) =
                      Get(before, 0) \cup Get(before, 1) \cup Get(before, 2)

\* an ADDMOD whose three operands carry labels, not all the same
C28_Witness ==
    /\ acc.attached = "taint" /\ acc.last.hook = "propagate" /\ acc.last.op = "ADDMOD"
    /\ {0, 1, 2} \subseteq DOMAIN acc.last.before.taintStacks
    /\ acc.last.before.taintStacks[0] = {SiteLabel}
    /\ acc.last.before.taintStacks[2] = {StringLabel}
    /\ Get(acc.ta.taintStacks, 0) = {SiteLabel, StringLabel}

(***************************************************************************)
(* Workers merging into one process-global accumulator.  Each worker calls *)
(* Update with the result of its transaction: it takes the write lock of   *)
(* the accumulator, compares the entries of the accumulator with those of  *)
(* the result, stores the merged entries and releases the lock.  A reader  *)
(* (TotalCodeCoverage, TotalBranchCoverage, TotalDataflowCount, ...) takes *)
(* the read lock, reads the entries and releases it.  acc.lock is the      *)
(* sync.RWMutex of the accumulator: the worker holding it as writer (0:    *)
(* none) and the number of readers holding it.                             *)
(***************************************************************************)
\* workers calling Update
NumWorkers == 2

\* queries of the reader
MaxReads == 2

Workers == 1..NumWorkers

SharedKinds == {"codecoverage", "branchcoverage", "dataflow", "storagewrite", "tokenflow",
                "bugmap"}

SharedResults(kind) ==
    IF kind = "bugmap" THEN BugMapsUpTo(1) ELSE MergeResults(kind)

SharedNew(kind) ==
    IF kind = "bugmap" THEN EmptyMap ELSE MergeNew(kind)

SharedUpdate(kind, g, r) ==
    IF kind = "bugmap" THEN BugMap_Update(g, r) ELSE MergeUpdate(kind, g, r)

SharedContents(kind, g) ==
    IF kind = "bugmap" THEN g ELSE MergeContents(kind, g)

RECURSIVE SharedAll(_, _, _, _)
\* the accumulator after Update with rs[order[1]], ..., rs[order[n]], one after the other
SharedAll(kind, rs, order, n) ==
    IF n = 0 THEN SharedNew(kind)
    ELSE SharedUpdate(kind, SharedAll(kind, rs, order, n - 1), rs[order[n]])

Lock_Free_Unguarded(l) ==
    TRUE

\* lock.Lock() returns: no writer and no reader holds the lock
Lock_Free(l) ==
    l.writer = 0 /\ l.readers = 0

\* lock.RLock() returns: no writer holds the lock
RLock_Free(l) ==
    l.writer = 0

SharedInit ==
    /\ sets = Idle /\ cov = Idle /\ df = Idle /\ bug = Idle /\ dist = Idle
    /\ \E kind \in SharedKinds :
         \E rs \in [Workers -> SharedResults(kind)] :
            acc = [attached |-> "shared", kind |-> kind, rs |-> rs,
                   g |-> SharedNew(kind),
                   lock |-> [writer |-> 0, readers |-> 0],
                   pc |-> [w \in Workers |-> "start"],
                   merged |-> [w \in Workers |-> SharedNew(kind)],
                   reader |-> "idle", reads |-> 0, observed |-> FALSE,
                   seen |-> SharedContents(kind, SharedNew(kind))]

\* Update: lock.Lock()
Update_Lock(w) ==
    /\ acc.attached = "shared"
    /\ acc.pc[w] = "start"
    /\ Lock_Free(acc.lock)
    /\ acc' = [acc EXCEPT !.lock.writer = w, !.pc[w] = "locked"]
    /\ UNCHANGED <<sets, cov, df, bug, dist>>

\* Update: the entries of the accumulator are read and merged with the result
Update_Merge(w) ==
    /\ acc.attached = "shared"
    /\ acc.pc[w] = "locked"
    /\ acc' = [acc EXCEPT !.merged[w] = SharedUpdate(acc.kind, acc.g, acc.rs[w]),
                          !.pc[w] = "merged"]
    /\ UNCHANGED <<sets, cov, df, bug, dist>>

\* Update: the merged entries are stored in the accumulator
Update_Store(w) ==
    /\ acc.attached = "shared"
    /\ acc.pc[w] = "merged"
    /\ acc' = [acc EXCEPT !.g = acc.merged[w], !.pc[w] = "stored"]
    /\ UNCHANGED <<sets, cov, df, bug, dist>>

\* Update: the deferred lock.Unlock()
Update_Unlock(w) ==
    /\ acc.attached = "shared"
    /\ acc.pc[w] = "stored"
    /\ acc' = [acc EXCEPT !.lock.writer = IF @ = w THEN 0 ELSE @, !.pc[w] = "done"]
    /\ UNCHANGED <<sets, cov, df, bug, dist>>

\* a count query: lock.RLock()
Count_RLock ==
    /\ acc.attached = "shared"
    /\ acc.reader = "idle"
    /\ acc.reads < MaxReads
    /\ RLock_Free(acc.lock)
    /\ acc' = [acc EXCEPT !.lock.readers = @ + 1, !.reader = "locked"]
    /\ UNCHANGED <<sets, cov, df, bug, dist>>

\* a count query: the entries are read
Count_Read ==
    /\ acc.attached = "shared"
    /\ acc.reader = "locked"
    /\ acc' = [acc EXCEPT !.seen = SharedContents(acc.kind, acc.g), !.observed = TRUE,
                          !.reader = "read"]
    /\ UNCHANGED <<sets, cov, df, bug, dist>>

\* a count query: the deferred lock.RUnlock()
Count_RUnlock ==
    /\ acc.attached = "shared"
    /\ acc.reader = "read"
    /\ acc' = [acc EXCEPT !.lock.readers = @ - 1, !.reader = "idle", !.reads = @ + 1]
    /\ UNCHANGED <<sets, cov, df, bug, dist>>

SharedNext ==
    \/ \E w \in Workers : Update_Lock(w)
    \/ \E w \in Workers : Update_Merge(w)
    \/ \E w \in Workers : Update_Store(w)
    \/ \E w \in Workers : Update_Unlock(w)
    \/ Count_RLock
    \/ Count_Read
    \/ Count_RUnlock

SpecShared == SharedInit /\ [][SharedNext]_vars

\* the contents after the first n Updates of some serial order of the workers
SerialContents(n) ==
    {SharedContents(acc.kind, SharedAll(acc.kind, acc.rs, order, n)) :
        order \in Orders(NumWorkers)}

(***************************************************************************)
(* C23: when the workers call Update concurrently on one accumulator, each *)
(* with its own result, the accumulator after the last Update equals the   *)
(* merge of all results in some serial order, and what a concurrent reader *)
(* observes is the accumulator after some number of Updates of a serial    *)
(* order.                                                                  *)
(***************************************************************************)
C23_ConcurrentMergesLoseNothing ==
    acc.attached = "shared" =>
       /\ (\A w \in Workers : acc.pc[w] = "done") =>
             SharedContents(acc.kind, acc.g) \in SerialContents(NumWorkers)
       /\ acc.observed => \E n \in 0..NumWorkers : acc.seen \in SerialContents(n)

\* both workers have merged different results and the reader saw the accumulator in between
C23_Witness ==
    /\ acc.attached = "shared"
    /\ \A w \in Workers : acc.pc[w] = "done"
    /\ acc.observed
    /\ acc.seen # SharedContents(acc.kind, acc.g)
    /\ acc.seen # SharedContents(acc.kind, SharedNew(acc.kind))
    /\ \A w \in Workers :
          SharedContents(acc.kind, SharedUpdate(acc.kind, SharedNew(acc.kind), acc.rs[w]))
             # SharedContents(acc.kind, acc.g)

(***************************************************************************)
(* Revert metrics: a worker calls updateRevertMetrics after each call of a *)
(* sequence; the update goes to the revert reporter over                   *)
(* revertMetricsChan, an unbuffered channel, or nowhere when revert        *)
(* metrics are disabled (nil channel).  acc.pc is the position of the      *)
(* worker: "idle" between two calls, "send" blocked in the send statement, *)
(* "handed" when the reporter has received the value and the send          *)
(* statement can complete.  acc.log has one entry per call of              *)
(* updateRevertMetrics, acc.taken counts the updates the reporter received.*)
(***************************************************************************)
\* calls of updateRevertMetrics
MaxUpdates == 6

Channels == {"nil", "chan"}

Elements == {"nil", "call"}

updateRevertMetrics_NoNilCheck(revertMetricsChan, callSequenceElement) ==
    "send"

\* updateRevertMetrics up to the send statement: the position it reaches
updateRevertMetrics(revertMetricsChan, callSequenceElement) ==
    IF callSequenceElement = "nil" \/ revertMetricsChan = "nil" THEN "return" ELSE "send"

RevertInit ==
    /\ sets = Idle /\ cov = Idle /\ df = Idle /\ bug = Idle /\ dist = Idle
    /\ \E c \in Channels :
         acc = [attached |-> "revert", revertMetricsChan |-> c, pc |-> "idle",
                element |-> "nil", log |-> << >>, taken |-> 0]

\* the worker calls updateRevertMetrics: it returns at once or blocks in the send
Worker_updateRevertMetrics(callSequenceElement) ==
    /\ acc.attached = "revert"
    /\ acc.pc = "idle"
    /\ Len(acc.log) < MaxUpdates
    /\ LET to == updateRevertMetrics(acc.revertMetricsChan, callSequenceElement)
       IN  acc' = [acc EXCEPT
                     !.element = callSequenceElement,
                     !.pc = IF to = "send" THEN "send" ELSE "idle",
                     !.log = Append(@, [element |-> callSequenceElement,
                                        taken |-> acc.taken,
                                        state |-> IF to = "send" THEN "send" ELSE "skipped"])]
    /\ UNCHANGED <<sets, cov, df, bug, dist>>

\* the reporter receives from the channel: enabled when a sender waits on the channel
Reporter_Receive ==
    /\ acc.attached = "revert"
    /\ acc.pc = "send"
    /\ acc.revertMetricsChan # "nil"
    /\ acc' = [acc EXCEPT !.pc = "handed", !.taken = @ + 1]
    /\ UNCHANGED <<sets, cov, df, bug, dist>>

\* the send statement completes and updateRevertMetrics returns
Worker_Return ==
    /\ acc.attached = "revert"
    /\ acc.pc = "handed"
    /\ acc' = [acc EXCEPT !.pc = "idle",
                          !.log[Len(acc.log)].state = "returned"]
    /\ UNCHANGED <<sets, cov, df, bug, dist>>

RevertNext ==
    \/ \E e \in Elements : Worker_updateRevertMetrics(e)
    \/ Reporter_Receive
    \/ Worker_Return

SpecRevertMetrics == RevertInit /\ [][RevertNext]_vars

\* the reporter keeps receiving and the worker keeps running
SpecRevertMetricsFair ==
    SpecRevertMetrics /\ WF_vars(Reporter_Receive) /\ WF_vars(Worker_Return)

\* the calls of updateRevertMetrics that had a channel and a call element
RevertSends == {i \in 1..Len(acc.log) :
                   acc.log[i].element # "nil" /\ acc.revertMetricsChan # "nil"}

RevertHandOff ==
    acc.attached = "revert" =>
       \* no send without channel or call element, and the call returned at once
       /\ \A i \in 1..Len(acc.log) :
             i \notin RevertSends => acc.log[i].state = "skipped"
       \* a call that returned after a send: the reporter took exactly its update
       /\ \A i \in RevertSends :
             /\ acc.log[i].state # "skipped"
             /\ acc.log[i].state = "returned" =>
                  (IF i < Len(acc.log) THEN acc.log[i + 1].taken ELSE acc.taken)
                     = acc.log[i].taken + 1
       \* one update per send
       /\ acc.taken = Cardinality({i \in RevertSends : acc.log[i].state = "returned"})
                        + (IF acc.pc = "handed" THEN 1 ELSE 0)
       /\ acc.pc # "idle" => Len(acc.log) \in RevertSends

(***************************************************************************)
(* C24: updateRevertMetrics sends nothing and returns at once when the     *)
(* channel or the call element is nil; otherwise it sends one update for   *)
(* the call and returns only after the reporter has taken it; with a       *)
(* reporter that keeps receiving, a worker in updateRevertMetrics always   *)
(* eventually continues.                                                   *)
(***************************************************************************)
C24_RevertMetricsHandOff ==
    /\ []RevertHandOff
    /\ (acc.attached = "revert" /\ acc.pc = "send") ~> (acc.pc = "idle")

\* two calls sent an update each and returned, one call in between was skipped
C24_Witness ==
    /\ acc.attached = "revert"
    /\ acc.pc = "idle"
    /\ acc.taken = 2
    /\ \E i \in 1..Len(acc.log) : acc.log[i].state = "skipped" /\ acc.log[i].element = "nil"
    /\ acc.log[Len(acc.log)].state = "returned"

(***************************************************************************)
(* C29: back-propagation never aborts the trace: at every JUMPI, also when *)
(* the tracked source index falls outside the stack of an earlier cached   *)
(* operation (STACKOUTOFSCOPE), OnOpcode returns, having recorded the      *)
(* distance K = 1 for the side not taken, and the next hook is delivered.  *)
(***************************************************************************)
C29_BackPropagationNeverAborts ==
    dist.attached = "branchdistance" =>
       /\ ~dist.panicked
       /\ (/\ dist.last.hook = "op"
           /\ dist.last.op = "JUMPI"
           /\ dist.last.status = "STACKOUTOFSCOPE") =>
              IF dist.last.cond # 0 THEN dist.last.distanceToCondIsZero = 1
              ELSE dist.last.distanceToCondIsNotZero = 1

(***************************************************************************)
(* Back-propagation over longer histories: the branch-distance tracer in   *)
(* the top-level frame of a transaction, after OnTxStart and OnEnter,      *)
(* receiving OnOpcode for PUSH, the comparisons, DUP1, SWAP1 and JUMPI.    *)
(***************************************************************************)
\* number of OnOpcode hooks delivered to the frame
MaxHistory == 6

Comparisons == {"LT", "GT", "EQ", "SLT", "SGT"}

BackPropagationInit ==
    /\ sets = Idle /\ cov = Idle /\ df = Idle /\ bug = Idle /\ acc = Idle
    /\ dist = [attached |-> "branchdistance", phase |-> "tx", ops |-> 0,
               budget |-> MaxHistory, panicked |-> FALSE, scopes |-> << << >> >>,
               tracer |-> [NewBranchDistanceTracer EXCEPT
                             !.callFrameStates =
                                 << [initialized |-> FALSE, create |-> FALSE,
                                     pendingBranchDistanceMap |-> NewBranchDistanceMaps,
                                     lookupHash |-> Nil, cachedOperations |-> << >>,
                                     address |-> Nil] >>],
               last |-> [hook |-> "enter"], result |-> NewBranchDistanceMaps]

BackPropagationNext ==
    \/ \E v \in {0, 1, WordMod - 1} : BranchDistance_OnOpcode(0, "PUSH", v)
    \/ \E op \in Comparisons \cup {"DUP1", "SWAP1"} : BranchDistance_OnOpcode(0, op, 0)
    \/ BranchDistance_OnOpcode(1, "JUMPI", 0)

SpecBackPropagation == BackPropagationInit /\ [][BackPropagationNext]_vars

\* the operations cached in the current frame
CachedOperations == dist.tracer.callFrameStates[dist.tracer.callDepth + 1].cachedOperations

\* the last operation before the JUMPI that is not a PUSH, DUP or SWAP (0: none)
LastComputation(ops) ==
    LET s == {i \in 1..(Len(ops) - 1) :
                 ops[i].opcode \notin {"PUSH"} \cup DOMAIN DupN \cup DOMAIN SwapN}
    IN  IF s = {} THEN 0 ELSE CHOOSE i \in s : \A j \in s : j <= i

RECURSIVE ResultSlots(_, _, _)
\* the slots of the stack before ops[i] (1: bottom) that hold the result of ops[c],
\* only PUSH, DUP and SWAP lying between c and i
ResultSlots(ops, c, i) ==
    IF i = c + 1 THEN {Len(ops[c].tmpStack) - 1}
    ELSE LET p == ResultSlots(ops, c, i - 1)
             op == ops[i - 1].opcode
             n == Len(ops[i - 1].tmpStack)
         IN  IF op \in DOMAIN DupN
             THEN IF (n - DupN[op] + 1) \in p THEN p \cup {n + 1} ELSE p
             ELSE IF op \in DOMAIN SwapN
             THEN {IF j = n THEN n - SwapN[op] ELSE IF j = n - SwapN[op] THEN n ELSE j :
                      j \in p}
             ELSE p

\* the JUMPI just recorded has as condition the result of a comparison, with only
\* PUSH, DUP and SWAP between the comparison and the JUMPI
ConditionFromComparison ==
    /\ dist.attached = "branchdistance"
    /\ dist.last.hook = "op"
    /\ dist.last.op = "JUMPI"
    /\ LET ops == CachedOperations
           c == LastComputation(ops)
       IN  /\ c > 0
           /\ ops[c].opcode \in Comparisons
           /\ (Len(ops[Len(ops)].tmpStack) - 1) \in ResultSlots(ops, c, Len(ops))

Abs(n) == IF n < 0 THEN 0 - n ELSE n

\* |x - y| of the operands of the comparison, signed for SLT and SGT
OperandDistance ==
    LET ops == CachedOperations
        o == ops[LastComputation(ops)]
        x == o.tmpStack[Len(o.tmpStack)]
        y == o.tmpStack[Len(o.tmpStack) - 1]
    IN  IF o.opcode \in {"SLT", "SGT"} THEN Abs(Signed(x) - Signed(y)) ELSE Abs(x - y)

\* the distance recorded for the side the JUMPI does not take
OtherSideDistance ==
    IF dist.last.cond # 0 THEN dist.last.distanceToCondIsZero
    ELSE dist.last.distanceToCondIsNotZero

(***************************************************************************)
(* C30: when the condition of a JUMPI is the result of LT, GT, EQ, SLT or  *)
(* SGT on operands x and y and only PUSH, DUP and SWAP lie between the     *)
(* comparison and the JUMPI, the distance recorded for the side not        *)
(* executed is |x - y| + 1 (signed |x - y| for SLT and SGT).               *)
(***************************************************************************)
C30_DistanceOfComparison ==
    ConditionFromComparison => OtherSideDistance = OperandDistance + 1

\* the same with the sum taken in words of WordBits bits, as OnOpcode adds K
C30_DistanceOfComparisonInWords ==
    ConditionFromComparison => OtherSideDistance = (OperandDistance + 1) % WordMod

(***************************************************************************)
(* The branch map of a bytecode.  A bytecode is a sequence of bytes, each  *)
(* named by the opcode it decodes to; pcs count from 0 as in the code, so  *)
(* the byte at pc is bytecode[pc + 1].  The iterator is [pc, arg, started, *)
(* error], arg the number of operand bytes of the current instruction.     *)
(***************************************************************************)
\* bytes of a bytecode
MaxCode == 5

Bytes == {"STOP", "JUMPI", "PUSH1", "PUSH2"}

Bytecodes == UNION {[1..n -> Bytes] : n \in 0..MaxCode}

\* uint64(op) - uint64(PUSH1) + 1 of a push opcode
PushBytes == ("PUSH1" :> 1) @@ ("PUSH2" :> 2)

NewInstructionIterator == [pc |-> 0, arg |-> 0, op |-> "STOP", started |-> FALSE, error |-> FALSE]

\* instructionIterator.Next: the iterator afterwards and the boolean returned
instructionIterator_Next(code, it) ==
    IF it.error \/ Len(code) <= it.pc THEN [it |-> it, ok |-> FALSE]
    ELSE LET pc == IF it.started THEN it.pc + it.arg + 1 ELSE it.pc
             moved == [it EXCEPT !.pc = pc, !.started = TRUE]
         IN  IF Len(code) <= pc THEN [it |-> moved, ok |-> FALSE]
             ELSE LET op == code[pc + 1]
                  IN  IF op \in DOMAIN PushBytes
                      THEN IF Len(code) < pc + 1 + PushBytes[op]
                           THEN [it |-> [moved EXCEPT !.op = op, !.error = TRUE],
                                 ok |-> FALSE]
                           ELSE [it |-> [moved EXCEPT !.op = op, !.arg = PushBytes[op]],
                                 ok |-> TRUE]
                      ELSE [it |-> [moved EXCEPT !.op = op, !.arg = 0], ok |-> TRUE]

RECURSIVE BranchMapLoop(_, _, _, _)
\* the loop 'for it.Next()' of GetBranchMapFromBytecode
BranchMapLoop(code, it, branchIds, id) ==
    LET n == instructionIterator_Next(code, it)
    IN  IF ~n.ok THEN branchIds
        ELSE IF n.it.op = "JUMPI"
        THEN BranchMapLoop(code, n.it, Put(branchIds, n.it.pc, id), id + 2)
        ELSE BranchMapLoop(code, n.it, branchIds, id)

\* GetBranchMapFromBytecode: BranchIds of the map returned (the only error of the
\* iterator is the incomplete push, which is ignored)
GetBranchMapFromBytecode(bytecode) ==
    BranchMapLoop(bytecode, NewInstructionIterator, EmptyMap, 0)

\* BranchMap.Size
BranchMapSize(bm) == Cardinality(DOMAIN bm) * 2

\* BranchMap.GetBranchId: a pc that is not a key of the map reads as 0
BranchMapGetBranchId(bm, pc, cond) ==
    LET branchId == IF pc \in DOMAIN bm THEN bm[pc] ELSE 0
    IN  IF cond THEN branchId + 1 ELSE branchId

BranchMapInit ==
    /\ sets = Idle /\ cov = Idle /\ df = Idle /\ bug = Idle /\ dist = Idle
    /\ \E code \in Bytecodes :
         acc = [attached |-> "branchmap", code |-> code, built |-> FALSE,
                bm |-> EmptyMap, last |-> NoHook]

BranchMap_Build ==
    /\ acc.attached = "branchmap"
    /\ ~acc.built
    /\ acc' = [acc EXCEPT !.built = TRUE, !.bm = GetBranchMapFromBytecode(acc.code),
                          !.last = [hook |-> "build"]]
    /\ UNCHANGED <<sets, cov, df, bug, dist>>

BranchMap_GetBranchId(pc, cond) ==
    /\ acc.attached = "branchmap"
    /\ acc.built
    /\ acc' = [acc EXCEPT !.last = [hook |-> "id", pc |-> pc, cond |-> cond,
                                    id |-> BranchMapGetBranchId(acc.bm, pc, cond)]]
    /\ UNCHANGED <<sets, cov, df, bug, dist>>

BranchMapNext ==
    \/ BranchMap_Build
    \/ \E pc \in 0..MaxCode, cond \in BOOLEAN : BranchMap_GetBranchId(pc, cond)

SpecBranchMap == BranchMapInit /\ [][BranchMapNext]_vars

\* the pcs of the bytes inside the operand of a complete or incomplete push
RECURSIVE OperandPcs(_, _)
OperandPcs(code, pc) ==
    IF pc >= Len(code) THEN {}
    ELSE LET a == IF code[pc + 1] \in DOMAIN PushBytes THEN PushBytes[code[pc + 1]] ELSE 0
         IN  {q \in (pc + 1)..(pc + a) : q < Len(code)} \cup OperandPcs(code, pc + a + 1)

\* the pcs of the JUMPI instructions of a bytecode
JumpiInstructions(code) ==
    {pc \in 0..(Len(code) - 1) : code[pc + 1] = "JUMPI" /\ pc \notin OperandPcs(code, 0)}

\* base ids 2k in pc order, and the size
BranchMapIsBuilt ==
    LET js == JumpiInstructions(acc.code)
    IN  /\ DOMAIN acc.bm = js
        /\ \A pc \in js : acc.bm[pc] = 2 * Cardinality({q \in js : q < pc})
        /\ BranchMapSize(acc.bm) = 2 * Cardinality(js)

\* ids of the recorded JUMPIs: base + side, distinct and below Size()
BranchIdsOfJumpis ==
    LET js == JumpiInstructions(acc.code)
        id(pc, cond) == BranchMapGetBranchId(acc.bm, pc, cond)
    IN  /\ \A pc \in js, cond \in BOOLEAN :
              /\ id(pc, cond) = acc.bm[pc] + (IF cond THEN 1 ELSE 0)
              /\ id(pc, cond) \in 0..(BranchMapSize(acc.bm) - 1)
        /\ \A p, q \in js, c, d \in BOOLEAN :
              id(p, c) = id(q, d) => p = q /\ c = d

(***************************************************************************)
(* C31: GetBranchMapFromBytecode gives the k-th JUMPI instruction in pc    *)
(* order the base id 2k (operand bytes of PUSH are no instructions, an     *)
(* incomplete trailing PUSH ends the scan), Size() is twice the number of  *)
(* JUMPIs, GetBranchId(pc, taken) is the base id plus 1 if taken, the ids  *)
(* of distinct (JUMPI, side) pairs are distinct and below Size(), and the  *)
(* id of a pc that is no recorded JUMPI is the id of no recorded JUMPI.    *)
(***************************************************************************)
C31_BranchMapConstruction ==
    (acc.attached = "branchmap" /\ acc.built) =>
       /\ BranchMapIsBuilt
       /\ BranchIdsOfJumpis
       /\ (acc.last.hook = "id" /\ acc.last.pc \notin DOMAIN acc.bm) =>
             \A pc \in DOMAIN acc.bm, cond \in BOOLEAN :
                acc.last.id # BranchMapGetBranchId(acc.bm, pc, cond)

\* the statement about the recorded JUMPIs alone
C31_RecordedJumpis ==
    (acc.attached = "branchmap" /\ acc.built) => BranchMapIsBuilt /\ BranchIdsOfJumpis

\* the flows the CALL just traced by the token-flow tracer is to record
FlowsOfCall ==
    LET c == sets.last.call
    IN  (IF c.value > 0
         THEN {[From |-> c.storageAddress, To |-> c.toAddr, Amount |-> c.value,
                Token |-> ZeroAddress]}
         ELSE {})
        \cup
        (IF c.args.selector = "a9059cbb" /\ c.args.len = 68
         THEN {[From |-> c.storageAddress, To |-> c.argTo, Amount |-> c.argAmount,
                Token |-> c.toAddr]}
         ELSE IF c.args.selector = "23b872dd" /\ c.args.len = 100
         THEN {[From |-> c.argFrom, To |-> c.argTo, Amount |-> c.argAmount,
                Token |-> c.toAddr]}
         ELSE {})

\* the elements of the pending set of the innermost frame, amounts by bucket
PendingFlows ==
    LET pending == sets.tracer.callFrameStates[sets.tracer.callDepth + 1].pending
    IN  {[pending[k] EXCEPT !.Amount = bucket(@)] : k \in DOMAIN pending}

TokenflowCallTraced ==
    /\ sets.attached = "tokenflow"
    /\ sets.last.hook = "op"

(***************************************************************************)
(* C32: after a CALL the pending set of the frame holds an element for     *)
(* every flow of the call: the native transfer when value > 0 and the      *)
(* ERC-20 flow when the calldata is a 68-byte transfer or a 100-byte       *)
(* transferFrom, both for a call that has both; flows recorded at the same *)
(* position with different recipients, tokens or amount buckets are        *)
(* distinct elements.                                                      *)
(***************************************************************************)
C32_EveryFlowOfTheCallIsRecorded ==
    TokenflowCallTraced =>
       \A f \in FlowsOfCall : [f EXCEPT !.Amount = bucket(@)] \in PendingFlows

\* the first flow recorded at a position of a frame is in the pending set
C32_FirstFlowAtPosition ==
    (/\ TokenflowCallTraced
     /\ TF_Key(sets.tracer.callFrameStates[sets.tracer.callDepth + 1].address,
               sets.tracer.callFrameStates[sets.tracer.callDepth + 1].create,
               sets.last.call.pc) \notin DOMAIN sets.last.pendingBefore
     /\ Cardinality(FlowsOfCall) = 1) =>
        \A f \in FlowsOfCall : [f EXCEPT !.Amount = bucket(@)] \in PendingFlows

(***************************************************************************)
(* C33: a REENTRANCY id is covered at an SSTORE to slot s of a frame only  *)
(* if, earlier in the frame and in this order, an SLOAD of s executed, a   *)
(* CALL with gas above 2300 executed and a child frame at an adversarial   *)
(* address exited without revert, also when one SLOAD pc is executed       *)
(* several times with different slots.                                     *)
(***************************************************************************)
C33_ReentrancyOnlyAfterLoadCallAndReturn ==
    (/\ bug.attached = "bug"
     /\ bug.last.hook = "opcode"
     /\ bug.last.op = "SSTORE"
     /\ \E id \in bug.t.bugMap \ bug.last.mapBefore : id[1] = "REENTRANCY") =>
        bug.last.key \in bug.last.ready

(***************************************************************************)
(* The overflow source: OnOpcode of the bug detector for ADD, SUB and MUL  *)
(* with the operands a = Stack.Back(0) and b = Stack.Back(1), in the       *)
(* top-level frame of V, whose analyzer carries no label or a label of a   *)
(* storage load on the slot below the operands.                            *)
(***************************************************************************)
ArithmeticOps == {"ADD", "SUB", "MUL"}

OverflowInit ==
    /\ sets = Idle /\ cov = Idle /\ df = Idle /\ bug = Idle /\ dist = Idle
    /\ \E ts \in {EmptyMap, 2 :> {SiteLabel}} :
         acc = [attached |-> "overflow", traced |-> FALSE,
                ta |-> [NewTaintAnalyzer EXCEPT !.taintStacks = ts],
                last |-> NoHook]

Overflow_OnOpcode(op, a, b) ==
    /\ acc.attached = "overflow"
    /\ ~acc.traced
    /\ LET x == [address |-> "V", a |-> a, b |-> b, key |-> "s1", gas |-> GasStipend,
                 to |-> "V"]
           t == Tracer_OnOpcode(TaintFrame(acc.ta), 1, op, x)
       IN  acc' = [acc EXCEPT
                     !.traced = TRUE,
                     !.ta = t.callFrameStates[1].taintAnalyzer,
                     !.last = [hook |-> "opcode", op |-> op, a |-> a, b |-> b,
                               source |-> isOverflowTaintSource(op, a, b)]]
    /\ UNCHANGED <<sets, cov, df, bug, dist>>

OverflowNext ==
    \E op \in ArithmeticOps, a, b \in 0..(WordMod - 1) : Overflow_OnOpcode(op, a, b)

SpecOverflow == OverflowInit /\ [][OverflowNext]_vars

\* the result of the opcode on the unbounded integers does not fit a word
Overflows(op, a, b) ==
    IF op = "ADD" THEN a + b >= WordMod
    ELSE IF op = "SUB" THEN a < b
    ELSE a * b >= WordMod

OverflowTraced == acc.attached = "overflow" /\ acc.last.hook = "opcode"

(***************************************************************************)
(* C34: over words of w bits the overflow source predicate holds for ADD   *)
(* iff a + b >= 2^w, for SUB iff a < b and for MUL iff a * b >= 2^w; when  *)
(* it holds the OVERFLOW label is on the result slot after the opcode.     *)
(***************************************************************************)
C34_OverflowSourceIsExact ==
    OverflowTraced =>
       /\ acc.last.source <=> Overflows(acc.last.op, acc.last.a, acc.last.b)
       /\ acc.last.source => IsTaintedByString(acc.ta, OVERFLOW_ID, 0)

\* the same without the products that overflow
C34_ExactButForProducts ==
    (OverflowTraced /\ ~(acc.last.op = "MUL" /\ ~acc.last.source)) =>
       /\ acc.last.source <=> Overflows(acc.last.op, acc.last.a, acc.last.b)
       /\ acc.last.source => IsTaintedByString(acc.ta, OVERFLOW_ID, 0)

(***************************************************************************)
(* The boolean Update returns, against what the merge did to the receiver. *)
(* acc.last.returned is the boolean of the last Update (SetAt records      *)
(* FALSE, its own boolean is not looked at), acc.last.before the receiver  *)
(* before the call.                                                        *)
(***************************************************************************)
\* some coverage flag of the receiver went from 0 (or from no flags) to 1
AccFlagRaised == AccOnes(acc.g) # AccOnes(acc.last.before)

\* some id was added to the receiver or some stored distance decreased
AccDistanceLowered ==
    \E k \in AccKeys, id \in 0..AccSize :
        LET after == AccDistanceOf(acc.kind, acc.g, k)
            before == AccDistanceOf(acc.kind, acc.last.before, k)
        IN  /\ id \in DOMAIN after
            /\ (id \notin DOMAIN before \/ after[id] < before[id])

AccUpdated == acc.attached = "accumulator" /\ acc.last.hook = "update"

\* C35: Update returns true if and only if the merge changed the receiver:
\* for a coverage map, at least one coverage flag went from 0 to 1 (merging
\* reverted, empty coverage returns false); for a distance map, some id was
\* added or some stored distance decreased.
C35_UpdateReturnIsAccurate ==
    AccUpdated =>
        (acc.last.returned <=>
            IF acc.kind \in {"codecoverage", "branchcoverage"}
            THEN AccFlagRaised ELSE AccDistanceLowered)

\* C35, the half that survives in three of the four maps: a raised flag, a
\* new id of a branch-distance map or a lower distance is always reported
C35_ChangeIsReported ==
    (AccUpdated /\ acc.kind # "cmpdistance") =>
        ((IF acc.kind \in {"codecoverage", "branchcoverage"}
          THEN AccFlagRaised ELSE AccDistanceLowered) => acc.last.returned)

\* C35, what the boolean is in fact: true when the argument holds a key
\* the receiver lacked, whatever is under it
C35_NewKeyIsReported ==
    (AccUpdated /\ DOMAIN acc.g.maps # DOMAIN acc.last.before.maps) => acc.last.returned

(***************************************************************************)
(* codecoverage with its pointers.  CoverageMaps.maps holds pointers to    *)
(* ContractCoverageMap objects and executedFlags is a slice, so two maps   *)
(* can hold the same object or the same bytes.  The heap: acc.entries[e]   *)
(* is the slice of the successfulCoverage of object e (0 for nil           *)
(* executedFlags), acc.slices[s] the bytes of slice s, acc.maps[m][key]    *)
(* the object map m holds for the key, acc.cachedMap[m] its cachedMap (0   *)
(* for nil) and acc.cachedKey[m] the cached hash and address.  Two maps    *)
(* accumulate (the fuzzer's metrics and a second accumulator), two are     *)
(* the results of transactions.  History: acc.last.before is what every    *)
(* map held before the last call.                                          *)
(***************************************************************************)
HeapMaps == {"global1", "global2", "result1", "result2"}

\* the maps that are handed to Update: the results of transactions
HeapResults == {"result1", "result2"}

HeapKeys == {<<"h2", "c1">>}

\* number of calls on the maps
MaxHeapCalls == 5

\* what a map holds, by value: key -> flags
HeapContents(h, mp) ==
    [k \in DOMAIN h.maps[mp] |->
        IF h.entries[h.maps[mp][k]] = 0 THEN NilFlags
        ELSE h.slices[h.entries[h.maps[mp][k]]]]

HeapAllContents(h) == [mp \in HeapMaps |-> HeapContents(h, mp)]

HeapInit ==
    /\ sets = Idle /\ cov = Idle /\ df = Idle /\ bug = Idle /\ dist = Idle
    /\ acc = [attached |-> "heap",
              maps |-> [mp \in HeapMaps |-> EmptyMap],
              cachedMap |-> [mp \in HeapMaps |-> 0],
              cachedKey |-> [mp \in HeapMaps |-> NoKey],
              entries |-> << >>, slices |-> << >>,
              calls |-> 0, last |-> NoHook]

\* CoverageMapBytecodeData.update on the objects e and other: a receiver
\* without flags takes the slice of the argument, not a copy of it
Heap_update(h, e, other) ==
    IF h.entries[other] = 0 THEN h
    ELSE IF h.entries[e] = 0
    THEN [h EXCEPT !.entries[e] = h.entries[other]]
    ELSE [h EXCEPT !.slices[h.entries[e]] =
                       CodeCoverage_update(@, h.slices[h.entries[other]])]

\* the loop of CoverageMaps.Update over the keys of the argument: a key the
\* receiver lacks is given the object of the argument
RECURSIVE Heap_UpdateLoop(_, _, _, _)
Heap_UpdateLoop(h, dst, src, keys) ==
    IF keys = {} THEN h
    ELSE LET k == CHOOSE x \in keys : TRUE
             merged == IF k \in DOMAIN h.maps[dst]
                       THEN Heap_update(h, h.maps[dst][k], h.maps[src][k])
                       ELSE [h EXCEPT !.maps[dst] = Put(@, k, h.maps[src][k])]
         IN  Heap_UpdateLoop(merged, dst, src, keys \ {k})

\* CoverageMaps.SetAt with its cache, then setCoveredAt on the object
Heap_SetAtOn(h, mp, key, codeSize, pc) ==
    IF codeSize = 0 THEN h
    ELSE LET hit == h.cachedMap[mp] # 0 /\ h.cachedKey[mp] = key
             fresh == ~hit /\ key \notin DOMAIN h.maps[mp]
             e == IF hit THEN h.cachedMap[mp]
                  ELSE IF fresh THEN Len(h.entries) + 1 ELSE h.maps[mp][key]
             h1 == IF fresh
                   THEN [h EXCEPT !.entries = Append(@, 0), !.maps[mp] = Put(@, key, e)]
                   ELSE h
             h2 == [h1 EXCEPT !.cachedMap[mp] = e, !.cachedKey[mp] = key]
             h3 == IF h2.entries[e] = 0
                   THEN [h2 EXCEPT !.slices = Append(@, [i \in 1..codeSize |-> 0]),
                                   !.entries[e] = Len(h2.slices) + 1]
                   ELSE h2
             s == h3.entries[e]
         IN  IF pc < Len(h3.slices[s]) /\ h3.slices[s][pc + 1] = 0
             THEN [h3 EXCEPT !.slices[s][pc + 1] = 1]
             ELSE h3

\* CoverageMaps.RevertAll: Reset on the successfulCoverage of every object
Heap_RevertAllOn(h, mp) ==
    [h EXCEPT !.entries =
        [e \in DOMAIN h.entries |->
            IF \E k \in DOMAIN h.maps[mp] : h.maps[mp][k] = e THEN 0 ELSE h.entries[e]]]

Heap_Step(h, hook, dst, src) ==
    acc' = [h EXCEPT !.calls = acc.calls + 1,
                     !.last = [hook |-> hook, dst |-> dst, src |-> src,
                               before |-> HeapAllContents(acc)]]

Heap_Update(dst, src) ==
    /\ acc.attached = "heap"
    /\ acc.calls < MaxHeapCalls
    /\ dst # src
    /\ Heap_Step(Heap_UpdateLoop(acc, dst, src, DOMAIN acc.maps[src]), "update", dst, src)
    /\ UNCHANGED <<sets, cov, df, bug, dist>>

Heap_SetAt(mp, key, pc) ==
    /\ acc.attached = "heap"
    /\ acc.calls < MaxHeapCalls
    /\ Heap_Step(Heap_SetAtOn(acc, mp, key, AccSize, pc), "setat", mp, mp)
    /\ UNCHANGED <<sets, cov, df, bug, dist>>

Heap_RevertAll(mp) ==
    /\ acc.attached = "heap"
    /\ acc.calls < MaxHeapCalls
    /\ Heap_Step(Heap_RevertAllOn(acc, mp), "revertall", mp, mp)
    /\ UNCHANGED <<sets, cov, df, bug, dist>>

HeapNext ==
    \/ \E dst \in HeapMaps, src \in HeapResults : Heap_Update(dst, src)
    \/ \E mp \in HeapMaps, key \in HeapKeys, pc \in 0..(AccSize - 1) : Heap_SetAt(mp, key, pc)
    \/ \E mp \in HeapMaps : Heap_RevertAll(mp)

SpecHeap == HeapInit /\ [][HeapNext]_vars

HeapCalled == acc.attached = "heap" /\ acc.last.hook # "none"

\* C36: Update does not alias its argument.  A call on one map changes
\* that map only: Update leaves its argument as it was, and no SetAt, Update
\* or RevertAll on a map changes what another map holds, whatever was merged
\* into what before; a result merged into two accumulators does not tie
\* them together.
C36_UpdateDoesNotAlias ==
    HeapCalled =>
        \A mp \in HeapMaps \ {acc.last.dst} :
            HeapContents(acc, mp) = acc.last.before[mp]

\* C36, the part about the call itself: dst.Update(src) leaves src as it was
C36_UpdateLeavesArgument ==
    (HeapCalled /\ acc.last.hook = "update") =>
        HeapContents(acc, acc.last.src) = acc.last.before[acc.last.src]

\* C36, the accumulators: a merge into one accumulator does not change the
\* other accumulator
C36_AccumulatorsApart ==
    (HeapCalled /\ acc.last.hook = "update" /\ acc.last.dst = "global1") =>
        HeapContents(acc, "global2") = acc.last.before["global2"]

(***************************************************************************)
(* Transactions one after another on one tracer.  The bug detector, the    *)
(* dataflow tracer and the branch-coverage tracer each run any number of   *)
(* transactions; the history field before of an OnTxStart is the tracer    *)
(* as the transaction before left it.  What a hook does is a function of   *)
(* the tracer's fields and of what the interpreter hands it, so two runs   *)
(* that agree after OnTxStart attach the same result for the same hooks.   *)
(***************************************************************************)
TransactionsInit == BugInit \/ DfInit \/ CovInit

TransactionsNext == BugNext \/ DfNext \/ CovNext

SpecTransactions == TransactionsInit /\ [][TransactionsNext]_vars

\* the bug detector's fields after OnTxStart on a tracer just attached
BugFreshAfterTxStart == Tracer_OnTxStart(attachBugDetector(bug.t.config))

\* C37: no state leaks between transactions.  After OnTxStart the tracer's
\* result container and frame stack are empty and its depth is 0, so that
\* the tracer is field for field what a tracer just constructed is after
\* OnTxStart, whatever the transaction before left behind: frames that were
\* never popped, pending sets, bugs, a revert.
C37_NoStateLeaksBetweenTransactions ==
    /\ (bug.attached = "bug" /\ bug.last.hook = "txstart") =>
          /\ bug.t = BugFreshAfterTxStart
          /\ bug.t.bugMap = NewBugMap /\ bug.t.callFrameStates = << >>
          /\ bug.scopes = << >> /\ bug.result = NewBugMap
    /\ (df.attached = "dataflow" /\ df.last.hook = "txstart") =>
          [df EXCEPT !.last = NoHook] =
              [attached |-> "dataflow", phase |-> "tx", depth |-> -1, ops |-> 0,
               tracer |-> NewDataflowTracer, last |-> NoHook,
               stored |-> {}, flowed |-> {}, result |-> NewDataflowSet]
    /\ (cov.attached = "branchcoverage" /\ cov.last.hook = "txstart") =>
          [cov EXCEPT !.last = NoHook] =
              [attached |-> "branchcoverage", phase |-> "tx", ops |-> 0,
               scopes |-> << >>,
               tracer |-> NewCoverageTracer(cov.tracer.initialContractsSet),
               last |-> NoHook, result |-> NewCoverageMaps]

\* a transaction starts on a bug detector that the transaction before left
\* with frames on its stack and bugs in its map
C37_Witness ==
    /\ bug.attached = "bug" /\ bug.last.hook = "txstart"
    /\ bug.last.before.callFrameStates # << >>
    /\ bug.last.before.bugMap # NewBugMap

\* the same for the dataflow and the branch-coverage tracer: the
\* transaction before left frames or a non-empty container
C37_WitnessOtherTracers ==
    \/ /\ df.attached = "dataflow" /\ df.last.hook = "txstart"
       /\ df.last.before # NewDataflowTracer
    \/ /\ cov.attached = "branchcoverage" /\ cov.last.hook = "txstart"
       /\ cov.last.before.callFrameStates # << >>

\* C37 for the storage-write and the token-flow tracer, which reset the
\* same three fields
C37_SetTracersReset ==
    (sets.attached \in SetsTracerKinds /\ sets.last.hook = "txstart") =>
        [sets EXCEPT !.last = NoHook] =
            [attached |-> sets.attached, phase |-> "tx", depth |-> -1, ops |-> 0,
             tracer |-> NewSetTracer(sets.attached), last |-> NoHook,
             result |-> EmptyMap]

(***************************************************************************)
(* chain: testChainContractDiscoveryTracer.  acc.t holds the tracer's      *)
(* fields; a discovery is [Address, frame], the frame number standing for  *)
(* the frame that recorded it (history; the code stores the address and    *)
(* its runtime bytecode).  acc.stack is the interpreter's stack of open    *)
(* frames, acc.parentOf and acc.status the history of the transaction's    *)
(* frames: status is "open", "ok" (exited with err == nil) or "err".       *)
(***************************************************************************)
\* frames entered in one transaction
MaxDiscoveryFrames == 4

DiscoveryTypes == {"CALL", "STATICCALL", "DELEGATECALL", "CREATE"}

NewTestChainContractDiscoveryTracer ==
    [results |-> << >>, callDepth |-> 0, pendingCallFrames |-> << >>]

DiscoveryInit ==
    /\ sets = Idle /\ cov = Idle /\ df = Idle /\ bug = Idle /\ dist = Idle
    /\ acc = [attached |-> "discovery", phase |-> "idle",
              t |-> NewTestChainContractDiscoveryTracer,
              stack |-> << >>, parentOf |-> << >>, status |-> << >>,
              result |-> << >>, last |-> NoHook]

\* testChainContractDiscoveryTracer.OnTxStart: callDepth is not touched
Discovery_OnTxStart ==
    /\ acc.attached = "discovery"
    /\ acc.phase = "idle"
    /\ acc' = [acc EXCEPT !.phase = "tx",
                          !.t = [@ EXCEPT !.results = << >>, !.pendingCallFrames = << >>],
                          !.stack = << >>, !.parentOf = << >>, !.status = << >>,
                          !.result = << >>,
                          !.last = [hook |-> "txstart"]]
    /\ UNCHANGED <<sets, cov, df, bug, dist>>

\* testChainContractDiscoveryTracer.OnEnter
Discovery_OnEnter(typ, to) ==
    /\ acc.attached = "discovery"
    /\ acc.phase = "tx"
    /\ Len(acc.stack) <= MaxDepth
    /\ Len(acc.status) < MaxDiscoveryFrames
    /\ (acc.stack = << >> => acc.status = << >>)
    /\ LET depth == Len(acc.stack)
           n == Len(acc.status) + 1
           isTopLevelFrame == depth = 0
           recorded == IF typ \in {"CALL", "STATICCALL", "DELEGATECALL"}
                       THEN <<[Address |-> to, frame |-> n]>> ELSE << >>
       IN  acc' = [acc EXCEPT
                     !.t = [@ EXCEPT
                         !.pendingCallFrames = Append(@, recorded),
                         !.callDepth = IF isTopLevelFrame THEN @ ELSE @ + 1],
                     !.stack = Append(@, n),
                     !.parentOf = Append(@, IF isTopLevelFrame THEN 0
                                            ELSE acc.stack[Len(acc.stack)]),
                     !.status = Append(@, "open"),
                     !.last = [hook |-> "enter", depth |-> depth]]
    /\ UNCHANGED <<sets, cov, df, bug, dist>>

\* testChainContractDiscoveryTracer.OnExit: the top-level frame commits its
\* results whatever err is
Discovery_OnExit(failed) ==
    /\ acc.attached = "discovery"
    /\ acc.phase = "tx"
    /\ acc.stack # << >>
    /\ LET depth == Len(acc.stack) - 1
           n == acc.stack[Len(acc.stack)]
           isTopLevelFrame == depth = 0
           t == acc.t
           current == t.pendingCallFrames[t.callDepth + 1]
           pushed == IF ~failed
                     THEN [t.pendingCallFrames EXCEPT ![t.callDepth] = @ \o current]
                     ELSE t.pendingCallFrames
       IN  acc' = [acc EXCEPT
                     !.t = IF isTopLevelFrame
                           THEN [t EXCEPT !.results = @ \o current]
                           ELSE [t EXCEPT
                                   !.pendingCallFrames = SubSeq(pushed, 1, t.callDepth),
                                   !.callDepth = @ - 1],
                     !.stack = SubSeq(@, 1, Len(@) - 1),
                     !.status[n] = IF failed THEN "err" ELSE "ok",
                     !.phase = IF isTopLevelFrame THEN "done" ELSE @,
                     !.last = [hook |-> "exit", depth |-> depth, failed |-> failed]]
    /\ UNCHANGED <<sets, cov, df, bug, dist>>

\* testChainContractDiscoveryTracer.CaptureTxEndSetAdditionalResults
Discovery_CaptureTxEnd ==
    /\ acc.attached = "discovery"
    /\ acc.phase = "done"
    /\ acc' = [acc EXCEPT !.phase = "idle", !.result = acc.t.results,
                          !.last = [hook |-> "txend"]]
    /\ UNCHANGED <<sets, cov, df, bug, dist>>

DiscoveryNext ==
    \/ Discovery_OnTxStart
    \/ \E typ \in DiscoveryTypes, to \in Addrs : Discovery_OnEnter(typ, to)
    \/ \E failed \in BOOLEAN : Discovery_OnExit(failed)
    \/ Discovery_CaptureTxEnd

SpecDiscovery == DiscoveryInit /\ [][DiscoveryNext]_vars

\* frame n and its ancestors up to the top-level frame
RECURSIVE DiscoveryAncestors(_)
DiscoveryAncestors(n) ==
    IF n = 0 THEN {} ELSE {n} \cup DiscoveryAncestors(acc.parentOf[n])

DiscoveryCommitted == {acc.t.results[i].frame : i \in 1..Len(acc.t.results)}

\* C39: discoveries recorded in a call frame are in the transaction's
\* result only if that frame and all its ancestors, the top-level frame
\* included, exited without error; discoveries of a frame that exited with
\* an error are never in the result.
C39_OnlySuccessfulFramesCommit ==
    acc.attached = "discovery" =>
        \A n \in DiscoveryCommitted :
            \A a \in DiscoveryAncestors(n) : acc.status[a] = "ok"

\* C39 below the top-level frame: a committed discovery's frame and each of
\* its ancestors other than the top-level frame exited without error
C39_InnerFramesCommitOnSuccess ==
    acc.attached = "discovery" =>
        \A n \in DiscoveryCommitted :
            \A a \in DiscoveryAncestors(n) :
                acc.parentOf[a] # 0 => acc.status[a] = "ok"

(***************************************************************************)
(* The shadow state of the frames of the bug detector.  History: a scope's *)
(* parentShadow is the shadow state its parent frame had when the scope    *)
(* was entered, which is the state the calling opcode left; the last       *)
(* opcode's framesBefore is the tracer's frame stack before the opcode.    *)
(***************************************************************************)
\* the shadow stack after a call-family opcode that pops n and pushes one:
\* index i >= 1 holds what index i + n - 1 held, index 0 holds nothing
NetStackEffect(before, after, n) ==
    /\ \A i \in DOMAIN after : i >= 1 /\ (i + n - 1) \in DOMAIN before
                                      /\ after[i] = before[i + n - 1]
    /\ \A j \in DOMAIN before : j >= n => (j - n + 1) \in DOMAIN after

\* C38 in the transactions of the bug detector above, where the frames run
\* the code of the contracts: a newly entered frame has an empty
\* shadow stack, shadow memory and sload, call and jumpi tables; an opcode
\* changes the shadow state of the innermost frame only (a CALL leaves the
\* caller's shadow stack with its 7 operands popped and a clean result, a
\* DELEGATECALL with 6); and after the child exits the parent's shadow
\* state is the one the calling opcode left.
C38_IsolationInTransactions ==
    (bug.attached = "bug" /\ ~bug.panicked) =>
        /\ bug.last.hook = "enter" =>
              Shadow(bug.t.callFrameStates[LastIndex(bug.t)]) = EmptyShadow
        /\ bug.last.hook = "opcode" =>
              LET before == bug.last.framesBefore
                  after == bug.t.callFrameStates
              IN  /\ Len(after) = Len(before)
                  /\ Len(after) = Len(bug.scopes)
                  /\ \A i \in 1..(Len(before) - 1) : after[i] = before[i]
                  /\ bug.last.op \in {"CALL", "DELEGATECALL"} =>
                        /\ NetStackEffect(
                              before[Len(before)].taintAnalyzer.taintStacks,
                              after[Len(after)].taintAnalyzer.taintStacks,
                              IF bug.last.op = "CALL" THEN 7 ELSE 6)
                        /\ after[Len(after)].taintAnalyzer.taintMemory =
                              before[Len(before)].taintAnalyzer.taintMemory
        /\ (bug.last.hook = "exit" /\ bug.last.depth > 0) =>
              Shadow(bug.t.callFrameStates[LastIndex(bug.t)]) = bug.last.parentShadow

(***************************************************************************)
(* Frames of the bug detector under any opcodes: every oracle is enabled,  *)
(* a transaction from A has entered V, which has run an SLOAD and then no  *)
(* or seven pushes above the loaded value; from there each frame runs      *)
(* opcodes that taint (SLOAD, TIMESTAMP), push, branch or call, a CALL is  *)
(* followed by the OnEnter of its callee (V or W), and frames exit with or *)
(* without revert.                                                         *)
(* acc.t is the tracer, acc.open the addresses of the open frames,         *)
(* acc.calling whether an OnEnter is due.  History: acc.shadows holds, per *)
(* open frame, the shadow state its parent had when the frame was entered. *)
(***************************************************************************)
\* opcodes run in one transaction
MaxIsolationOps == 5

IsolationOps == {"SLOAD", "TIMESTAMP", "PUSH", "JUMPI", "CALL"}

\* what OnOpcode reads through scope in a frame at address
IsolationScope(address) ==
    [address |-> address, a |-> 1, b |-> 1, key |-> "s1",
     gas |-> GasStipend + 1, to |-> "W"]

\* the tracer after n more PUSH opcodes of the frame at V
RECURSIVE IsolationPushes(_, _)
IsolationPushes(t, n) ==
    IF n = 0 THEN t
    ELSE IsolationPushes(Tracer_OnOpcode(t, 1, "PUSH", IsolationScope("V")), n - 1)

\* the pushes above the loaded value when the model takes over
IsolationPrefixes == {0, 7}

IsolationInit ==
    /\ sets = Idle /\ cov = Idle /\ df = Idle /\ bug = Idle /\ dist = Idle
    /\ \E n \in IsolationPrefixes :
         LET t0 == Tracer_OnTxStart(attachBugDetector(BugConfig(TRUE, TRUE, TRUE)))
             t1 == Tracer_OnEnter(t0, 0, "CALL", "A", "V")
             t2 == Tracer_OnOpcode(t1, 1, "SLOAD", IsolationScope("V"))
         IN  acc = [attached |-> "isolation", phase |-> "tx",
                    t |-> IsolationPushes(t2, n),
                    open |-> <<"V">>, calling |-> FALSE, ops |-> 0,
                    shadows |-> <<EmptyShadow>>,
                    last |-> [hook |-> "txstart"]]

Isolation_OnEnter(to) ==
    /\ acc.attached = "isolation"
    /\ acc.phase = "tx" /\ acc.calling
    /\ Len(acc.open) <= MaxDepth
    /\ LET depth == Len(acc.open)
           from == acc.open[depth]
           parentShadow == Shadow(acc.t.callFrameStates[LastIndex(acc.t)])
       IN  acc' = [acc EXCEPT
                     !.t = Tracer_OnEnter(@, depth, "CALL", from, to),
                     !.open = Append(@, to),
                     !.calling = FALSE,
                     !.shadows = Append(@, parentShadow),
                     !.last = [hook |-> "enter", depth |-> depth]]
    /\ UNCHANGED <<sets, cov, df, bug, dist>>

Isolation_OnOpcode(op, pc) ==
    /\ acc.attached = "isolation"
    /\ acc.phase = "tx" /\ ~acc.calling
    /\ acc.open # << >>
    /\ acc.ops < MaxIsolationOps
    /\ op = "CALL" => Len(acc.open) <= MaxDepth
    /\ LET address == acc.open[Len(acc.open)]
       IN  acc' = [acc EXCEPT
                     !.t = Tracer_OnOpcode(@, pc, op, IsolationScope(address)),
                     !.calling = op = "CALL",
                     !.ops = @ + 1,
                     !.last = [hook |-> "opcode", op |-> op,
                               framesBefore |-> acc.t.callFrameStates]]
    /\ UNCHANGED <<sets, cov, df, bug, dist>>

Isolation_OnExit(reverted) ==
    /\ acc.attached = "isolation"
    /\ acc.phase = "tx" /\ ~acc.calling
    /\ acc.open # << >>
    /\ reverted \/ ~detect_etherleaking_panics(acc.t)
    /\ LET depth == Len(acc.open) - 1
       IN  acc' = [acc EXCEPT
                     !.t = Tracer_OnExit(@, depth, reverted, InitialBalances),
                     !.open = SubSeq(@, 1, depth),
                     !.shadows = SubSeq(@, 1, depth),
                     !.phase = IF depth = 0 THEN "done" ELSE @,
                     !.last = [hook |-> "exit", depth |-> depth, reverted |-> reverted,
                               parentShadow |-> acc.shadows[depth + 1],
                               childShadow |->
                                   Shadow(acc.t.callFrameStates[LastIndex(acc.t)])]]
    /\ UNCHANGED <<sets, cov, df, bug, dist>>

IsolationNext ==
    \/ \E to \in {"V", "W"} : Isolation_OnEnter(to)
    \/ \E op \in IsolationOps, pc \in Pcs : Isolation_OnOpcode(op, pc)
    \/ \E reverted \in BOOLEAN : Isolation_OnExit(reverted)

SpecIsolation == IsolationInit /\ [][IsolationNext]_vars

====
